---- MODULE Spec2Model ----
(***************************************************************************)
(* entity-manager: the three backends (GitHub, Notion, Beads) behind the   *)
(* Backend contract, modelled over the external services they drive.       *)
(*                                                                         *)
(* Strings the code inspects (link types, statuses, label names) are       *)
(* sequences of one-character strings, so that lower(), strip(), title()   *)
(* and split(":", 1) are computed as Python computes them.  Strings the    *)
(* code only passes through (titles, descriptions, assignees) are plain    *)
(* TLA+ strings.                                                           *)
(***************************************************************************)
EXTENDS Integers, Sequences, FiniteSets, TLC

VARIABLES
    backend,   \* which backend this run drives: "github", "notion" or "beads"
    github,    \* state of the GitHub repository (issues, blockedBy, parent)
    notion,    \* state of the Notion database (pages and their properties)
    beads,     \* state of the bd project (issues, dependencies)
    lastOp,    \* the last backend call: arguments, service calls, outcome
    pc,        \* position of each concurrent Notion add_link call
    local,     \* local variables of each concurrent Notion add_link call
    config     \* a Config instance and the YAML files it reads and writes

vars == <<backend, github, notion, beads, lastOp, pc, local, config>>

(***************************************************************************)
(* Bounds of the model.                                                    *)
(***************************************************************************)
\* longest target_ids list passed to add_link / remove_link
MaxTargets == 2
\* most links held by a service at a time
MaxLinks == 3
\* most arguments of one update call that are not None
MaxFields == 2

\* the entity ids of the model (issue numbers, page ids, bead hashes)
Ids == {1, 2}

(***************************************************************************)
(* Python string operations.                                               *)
(***************************************************************************)
UpperChars ==
    <<"A","B","C","D","E","F","G","H","I","J","K","L","M",
      "N","O","P","Q","R","S","T","U","V","W","X","Y","Z">>

LowerChars ==
    <<"a","b","c","d","e","f","g","h","i","j","k","l","m",
      "n","o","p","q","r","s","t","u","v","w","x","y","z">>

IsUpper(c) == \E i \in 1..Len(UpperChars) : UpperChars[i] = c

IsLower(c) == \E i \in 1..Len(LowerChars) : LowerChars[i] = c

IsAlpha(c) == IsUpper(c) \/ IsLower(c)

IsSpace(c) == c = " "

LowerChar(c) ==
    IF IsUpper(c)
    THEN LowerChars[CHOOSE i \in 1..Len(UpperChars) : UpperChars[i] = c]
    ELSE c

UpperChar(c) ==
    IF IsLower(c)
    THEN UpperChars[CHOOSE i \in 1..Len(LowerChars) : LowerChars[i] = c]
    ELSE c

\* str.lower()
Lower(s) == [i \in 1..Len(s) |-> LowerChar(s[i])]

\* str.strip(): leading and trailing whitespace removed
Strip(s) ==
    LET keep == {i \in 1..Len(s) : ~IsSpace(s[i])}
    IN  IF keep = {} THEN <<>>
        ELSE LET lo == CHOOSE i \in keep : \A j \in keep : i <= j
                 hi == CHOOSE i \in keep : \A j \in keep : j <= i
             IN  SubSeq(s, lo, hi)

\* str.title(): the first letter of every run of letters upper, the rest lower
Title(s) ==
    [i \in 1..Len(s) |->
        IF i = 1 \/ ~IsAlpha(s[IF i = 1 THEN 1 ELSE i - 1])
        THEN UpperChar(s[i]) ELSE LowerChar(s[i])]

\* link_type.lower().strip()
\* variant of NormalizeLinkType: lower() without strip()
NormalizeLinkType_NoStrip(link_type) == Lower(link_type)

NormalizeLinkType(link_type) == Strip(Lower(link_type))

\* a sequence without the elements of a set, order kept
RECURSIVE SeqWithout(_, _)
SeqWithout(s, drop) ==
    IF s = <<>> THEN <<>>
    ELSE IF Head(s) \in drop THEN SeqWithout(Tail(s), drop)
         ELSE <<Head(s)>> \o SeqWithout(Tail(s), drop)

SeqRange(s) == {s[i] : i \in 1..Len(s)}

\* the elements of a set of integers as a list, ascending
RECURSIVE SortedSeq(_)
SortedSeq(S) ==
    IF S = {} THEN <<>>
    ELSE LET m == CHOOSE x \in S : \A y \in S : x <= y
         IN  <<m>> \o SortedSeq(S \ {m})

(***************************************************************************)
(* Link types.                                                             *)
(***************************************************************************)
BLOCKED_BY == <<"b","l","o","c","k","e","d"," ","b","y">>
BLOCKING == <<"b","l","o","c","k","i","n","g">>
PARENT == <<"p","a","r","e","n","t">>
CHILDREN == <<"c","h","i","l","d","r","e","n">>
RELATES_TO == <<"r","e","l","a","t","e","s","_","t","o">>
RELATED == <<"r","e","l","a","t","e","d">>
BLOCKS == <<"b","l","o","c","k","s">>
PARENT_CHILD == <<"p","a","r","e","n","t","-","c","h","i","l","d">>
DISCOVERED_FROM == <<"d","i","s","c","o","v","e","r","e","d","-","f","r","o","m">>
INVALID_TYPE == <<"i","n","v","a","l","i","d","_","t","y","p","e">>
\* spellings of supported types that differ in case or surrounding whitespace
BLOCKED_BY_UPPER == <<"B","L","O","C","K","E","D"," ","B","Y">>
PARENT_PADDED == <<" ","P","a","r","e","n","t"," ">>
BLOCKING_MIXED == <<"B","l","o","c","k","i","n","g"," ">>

\* link_type=None of list_links (no character sequence equals it)
NoLinkType == <<"None">>

CanonicalLinkTypes == {BLOCKED_BY, BLOCKING, PARENT, CHILDREN}

LinkTypeInputs ==
    CanonicalLinkTypes \cup
    {BLOCKED_BY_UPPER, PARENT_PADDED, BLOCKING_MIXED,
     RELATES_TO, RELATED, BLOCKS, INVALID_TYPE}

TargetLists == UNION {[1..n -> Ids] : n \in 1..MaxTargets}

(***************************************************************************)
(* Errors and call results.                                                *)
(***************************************************************************)
NoError == [kind |-> "none", link_type |-> <<>>, supported |-> <<>>]

\* raise ValueError(f"Unsupported link type: '{link_type}'. ... supports: ...")
UnsupportedLinkType(link_type, supported) ==
    [kind |-> "Unsupported link type", link_type |-> link_type, supported |-> supported]

\* an error of the external service, propagated to the caller
ServiceError(what) == [kind |-> what, link_type |-> <<>>, supported |-> <<>>]

Link(source_id, target_id, link_type) ==
    [source_id |-> source_id, target_id |-> target_id, link_type |-> link_type]

(***************************************************************************)
(* The GitHub repository, as the GraphQL API presents it.                  *)
(*   issues    : issue number -> issue, for the issues that exist          *)
(*   blockedBy : pairs <<issue, blocker>>; "blocking" is its inverse       *)
(*   parent    : issue number -> number of its parent issue, 0 for none;   *)
(*               "subIssues" is its inverse                                *)
(***************************************************************************)
NodeId(number) == <<"node", number>>

NumberOf(nodeId) == nodeId[2]

GitHubLinkCount(gh) ==
    Cardinality(gh.blockedBy) + Cardinality({n \in DOMAIN gh.parent : gh.parent[n] # 0})

\* the issues above n in the sub-issue hierarchy
RECURSIVE GitHubAncestors(_, _, _)
GitHubAncestors(gh, n, fuel) ==
    IF fuel = 0 \/ gh.parent[n] = 0 THEN {}
    ELSE {gh.parent[n]} \cup GitHubAncestors(gh, gh.parent[n], fuel - 1)

\* query GetIssueId
GetIssueId(number) == [name |-> "GetIssueId", number |-> number]

\* mutation AddBlockedBy
AddBlockedBy(issueId, blockingIssueId) ==
    [name |-> "addBlockedBy", issueId |-> issueId, blockingIssueId |-> blockingIssueId]

\* mutation RemoveBlockedBy
RemoveBlockedBy(issueId, blockingIssueId) ==
    [name |-> "removeBlockedBy", issueId |-> issueId, blockingIssueId |-> blockingIssueId]

\* mutation AddSubIssue
AddSubIssue(issueId, subIssueId) ==
    [name |-> "addSubIssue", issueId |-> issueId, subIssueId |-> subIssueId]

\* mutation RemoveSubIssue
RemoveSubIssue(issueId, subIssueId) ==
    [name |-> "removeSubIssue", issueId |-> issueId, subIssueId |-> subIssueId]

\* query GetIssueLinks
GetIssueLinks(number) == [name |-> "GetIssueLinks", number |-> number]

\* the repository after one relationship mutation, or the service's error
GitHubExecute(gh, call) ==
    LET i == NumberOf(call.issueId)
    IN  CASE call.name = "addBlockedBy" ->
                LET b == NumberOf(call.blockingIssueId)
                IN  IF i = b \/ <<i, b>> \in gh.blockedBy
                    THEN [svc |-> gh, error |-> ServiceError("TransportError")]
                    ELSE [svc |-> [gh EXCEPT !.blockedBy = @ \cup {<<i, b>>}],
                          error |-> NoError]
          [] call.name = "removeBlockedBy" ->
                LET b == NumberOf(call.blockingIssueId)
                IN  IF <<i, b>> \notin gh.blockedBy
                    THEN [svc |-> gh, error |-> ServiceError("TransportError")]
                    ELSE [svc |-> [gh EXCEPT !.blockedBy = @ \ {<<i, b>>}],
                          error |-> NoError]
          [] call.name = "addSubIssue" ->
                LET c == NumberOf(call.subIssueId)
                IN  IF i = c \/ gh.parent[c] # 0
                       \/ c \in GitHubAncestors(gh, i, Cardinality(DOMAIN gh.parent))
                    THEN [svc |-> gh, error |-> ServiceError("TransportError")]
                    ELSE [svc |-> [gh EXCEPT !.parent[c] = i], error |-> NoError]
          [] call.name = "removeSubIssue" ->
                LET c == NumberOf(call.subIssueId)
                IN  IF gh.parent[c] # i
                    THEN [svc |-> gh, error |-> ServiceError("TransportError")]
                    ELSE [svc |-> [gh EXCEPT !.parent[c] = 0], error |-> NoError]

\* what a backend call leaves behind: the service, the calls issued, the error
\* raised (NoError when the call returned) and the links it returned
Outcome(svc, calls, error, links) ==
    [svc |-> svc, calls |-> calls, error |-> error, links |-> links]

\* variant of GitHubAddSupported: "parent" left out
GitHubAddSupported_NoParent == <<BLOCKED_BY, BLOCKING>>

GitHubAddSupported == <<BLOCKED_BY, BLOCKING, PARENT>>

GitHubRemoveSupported == <<BLOCKED_BY, BLOCKING, PARENT>>

GitHubListSupported == <<BLOCKED_BY, BLOCKING, PARENT, CHILDREN>>

\* variant of GitHubAddMutation: "blocking" keeps the order of "blocked by"
GitHubAddMutation_Unswapped(link_type, source_issue_id, target_issue_id) ==
    CASE link_type = BLOCKED_BY -> AddBlockedBy(source_issue_id, target_issue_id)
      [] link_type = BLOCKING -> AddBlockedBy(source_issue_id, target_issue_id)
      [] link_type = PARENT -> AddSubIssue(source_issue_id, target_issue_id)

\* the native mutation of add_link for one target
GitHubAddMutation(link_type, source_issue_id, target_issue_id) ==
    CASE link_type = BLOCKED_BY -> AddBlockedBy(source_issue_id, target_issue_id)
      [] link_type = BLOCKING -> AddBlockedBy(target_issue_id, source_issue_id)
      [] link_type = PARENT -> AddSubIssue(source_issue_id, target_issue_id)

\* the native mutation of remove_link for one target
GitHubRemoveMutation(link_type, source_issue_id, target_issue_id) ==
    CASE link_type = BLOCKED_BY -> RemoveBlockedBy(source_issue_id, target_issue_id)
      [] link_type = BLOCKING -> RemoveBlockedBy(target_issue_id, source_issue_id)
      [] link_type = PARENT -> RemoveSubIssue(source_issue_id, target_issue_id)

\* "for target_id in target_ids" of add_link (add = TRUE) and remove_link
RECURSIVE GitHubProcessTargets(_, _, _, _, _, _)
GitHubProcessTargets(acc, add, source_issue_id, target_ids, link_type, i) ==
    IF i > Len(target_ids) \/ acc.error # NoError THEN acc
    ELSE LET target_id == target_ids[i]
             query == GetIssueId(target_id)
         IN  IF target_id \notin DOMAIN acc.svc.issues
             THEN Outcome(acc.svc, Append(acc.calls, query),
                          ServiceError("TransportQueryError"), <<>>)
             ELSE LET mutation ==
                          IF add
                          THEN GitHubAddMutation(link_type, source_issue_id,
                                                 NodeId(target_id))
                          ELSE GitHubRemoveMutation(link_type, source_issue_id,
                                                    NodeId(target_id))
                      r == GitHubExecute(acc.svc, mutation)
                  IN  GitHubProcessTargets(
                          Outcome(r.svc, acc.calls \o <<query, mutation>>,
                                  r.error, <<>>),
                          add, source_issue_id, target_ids, link_type, i + 1)

\* GitHubBackend.add_link
GitHub_add_link(gh, source_id, target_ids, link_type_arg) ==
    LET link_type == NormalizeLinkType(link_type_arg)
    IN  IF link_type \notin SeqRange(GitHubAddSupported)
        THEN Outcome(gh, <<>>, UnsupportedLinkType(link_type, GitHubAddSupported), <<>>)
        ELSE IF source_id \notin DOMAIN gh.issues
        THEN Outcome(gh, <<GetIssueId(source_id)>>, ServiceError("TransportQueryError"), <<>>)
        ELSE GitHubProcessTargets(
                 Outcome(gh, <<GetIssueId(source_id)>>, NoError, <<>>),
                 TRUE, NodeId(source_id), target_ids, link_type, 1)

\* GitHubBackend.remove_link; recursive is not read
GitHub_remove_link(gh, source_id, target_ids, link_type_arg, recursive) ==
    LET link_type == NormalizeLinkType(link_type_arg)
    IN  IF link_type \notin SeqRange(GitHubRemoveSupported)
        THEN Outcome(gh, <<>>, UnsupportedLinkType(link_type, GitHubRemoveSupported), <<>>)
        ELSE IF source_id \notin DOMAIN gh.issues
        THEN Outcome(gh, <<GetIssueId(source_id)>>, ServiceError("TransportQueryError"), <<>>)
        ELSE GitHubProcessTargets(
                 Outcome(gh, <<GetIssueId(source_id)>>, NoError, <<>>),
                 FALSE, NodeId(source_id), target_ids, link_type, 1)

\* the links list_links builds from the issue_data of GetIssueLinks
GitHubLinksOf(gh, entity_id, link_type) ==
    LET all == link_type = NoLinkType \/ link_type = <<>>
        blockedBy == SortedSeq({p[2] : p \in {q \in gh.blockedBy : q[1] = entity_id}})
        blocking == SortedSeq({p[1] : p \in {q \in gh.blockedBy : q[2] = entity_id}})
        subIssues == SortedSeq({n \in DOMAIN gh.parent : gh.parent[n] = entity_id})
        parent == gh.parent[entity_id]
    IN  (IF all \/ link_type = BLOCKED_BY
         THEN [i \in 1..Len(blockedBy) |-> Link(entity_id, blockedBy[i], BLOCKED_BY)]
         ELSE <<>>)
        \o
        (IF all \/ link_type = BLOCKING
         THEN [i \in 1..Len(blocking) |-> Link(entity_id, blocking[i], BLOCKING)]
         ELSE <<>>)
        \o
        (IF (all \/ link_type = PARENT) /\ parent # 0
         THEN <<Link(entity_id, parent, PARENT)>>
         ELSE <<>>)
        \o
        (IF all \/ link_type = CHILDREN
         THEN [i \in 1..Len(subIssues) |-> Link(entity_id, subIssues[i], CHILDREN)]
         ELSE <<>>)

\* GitHubBackend.list_links
GitHub_list_links(gh, entity_id, link_type_arg) ==
    LET given == link_type_arg # NoLinkType /\ link_type_arg # <<>>
        link_type == IF given THEN NormalizeLinkType(link_type_arg) ELSE link_type_arg
    IN  IF given /\ link_type \notin SeqRange(GitHubListSupported)
        THEN Outcome(gh, <<>>, UnsupportedLinkType(link_type, GitHubListSupported), <<>>)
        ELSE IF entity_id \notin DOMAIN gh.issues
        THEN Outcome(gh, <<GetIssueLinks(entity_id)>>, ServiceError("TransportQueryError"), <<>>)
        ELSE Outcome(gh, <<GetIssueLinks(entity_id)>>, NoError,
                     GitHubLinksOf(gh, entity_id, link_type))

(***************************************************************************)
(* The Notion database.  A page is a function from property names to the   *)
(* values _parse_properties extracts; the four relation properties hold    *)
(* lists of page ids.                                                      *)
(***************************************************************************)
RelationProperties == <<"Blocked By", "Blocking", "Parent", "Children">>

NotionLinkCount(nt) ==
    Cardinality({<<p, r, t>> \in
            (DOMAIN nt.pages) \X SeqRange(RelationProperties) \X (DOMAIN nt.pages) :
            t \in SeqRange(nt.pages[p][r])})

\* client.pages.retrieve
PagesRetrieve(page_id) == [name |-> "pages.retrieve", page_id |-> page_id]

\* client.pages.update
PagesUpdate(page_id, properties) ==
    [name |-> "pages.update", page_id |-> page_id, properties |-> properties]

\* the database after pages.update: the properties sent replace the stored ones,
\* the others stay; a relation to a page that does not exist is refused
NotionExecuteUpdate(nt, call) ==
    LET page == nt.pages[call.page_id]
        props == call.properties
        relationsOk ==
            \A r \in DOMAIN props \cap SeqRange(RelationProperties) :
                SeqRange(props[r]) \subseteq DOMAIN nt.pages
    IN  IF ~relationsOk
        THEN [svc |-> nt, error |-> ServiceError("APIResponseError")]
        ELSE [svc |-> [nt EXCEPT !.pages[call.page_id] =
                          [k \in DOMAIN page |->
                              IF k \in DOMAIN props THEN props[k] ELSE page[k]]],
              error |-> NoError]

\* property_map of add_link and remove_link: link type -> relation property
NotionPropertyMap ==
    [t \in CanonicalLinkTypes |->
        CASE t = BLOCKED_BY -> "Blocked By"
          [] t = BLOCKING -> "Blocking"
          [] t = PARENT -> "Parent"
          [] t = CHILDREN -> "Children"]

\* list(property_map.keys())
NotionSupported == <<BLOCKED_BY, BLOCKING, PARENT, CHILDREN>>

\* property_map of list_links: relation property -> link type
NotionRelationType(property_name) ==
    CASE property_name = "Blocked By" -> BLOCKED_BY
      [] property_name = "Blocking" -> BLOCKING
      [] property_name = "Parent" -> PARENT
      [] property_name = "Children" -> CHILDREN

\* add_link: set(existing_relations), update(target_ids), written as a list
\* (the order of a Python set is arbitrary; the model writes it ascending)
\* variant of NotionAddRelations: the relations already stored are dropped
NotionAddRelations_TargetsOnly(existing_relations, target_ids) ==
    SortedSeq(SeqRange(target_ids))

\* variant of NotionAddRelations: the targets are appended to the stored list
NotionAddRelations_Appends(existing_relations, target_ids) ==
    existing_relations \o target_ids

NotionAddRelations(existing_relations, target_ids) ==
    SortedSeq(SeqRange(existing_relations) \cup SeqRange(target_ids))

\* variant of NotionRemainingRelations: nothing is filtered out
NotionRemainingRelations_KeepsAll(existing_relations, target_ids) ==
    existing_relations

\* remove_link: [rel_id for rel_id in existing_relations if rel_id not in target_ids]
NotionRemainingRelations(existing_relations, target_ids) ==
    SeqWithout(existing_relations, SeqRange(target_ids))

\* variant of NotionRelationUpdate: the four relation properties are written,
\* the ones not named as empty lists
NotionRelationUpdate_AllRelations(property_name, relation_ids) ==
    [k \in SeqRange(RelationProperties) |->
        IF k = property_name THEN relation_ids ELSE <<>>]

\* update_properties = {property_name: {"relation": [...]}}
NotionRelationUpdate(property_name, relation_ids) ==
    [k \in {property_name} |-> relation_ids]

\* variant of Notion_add_link: the page is retrieved before the type is validated
Notion_add_link_RetrievesFirst(nt, source_id, target_ids, link_type_arg) ==
    LET link_type == NormalizeLinkType(link_type_arg)
    IN  IF source_id \notin DOMAIN nt.pages
        THEN Outcome(nt, <<PagesRetrieve(source_id)>>,
                     ServiceError("APIResponseError"), <<>>)
        ELSE IF link_type \notin DOMAIN NotionPropertyMap
        THEN Outcome(nt, <<PagesRetrieve(source_id)>>,
                     UnsupportedLinkType(link_type, NotionSupported), <<>>)
        ELSE LET property_name == NotionPropertyMap[link_type]
                 existing_relations == nt.pages[source_id][property_name]
                 update == PagesUpdate(source_id,
                               NotionRelationUpdate(property_name,
                                   NotionAddRelations(existing_relations, target_ids)))
                 r == NotionExecuteUpdate(nt, update)
             IN  Outcome(r.svc, <<PagesRetrieve(source_id), update>>, r.error, <<>>)

\* NotionBackend.add_link
Notion_add_link(nt, source_id, target_ids, link_type_arg) ==
    LET link_type == NormalizeLinkType(link_type_arg)
    IN  IF link_type \notin DOMAIN NotionPropertyMap
        THEN Outcome(nt, <<>>, UnsupportedLinkType(link_type, NotionSupported), <<>>)
        ELSE IF source_id \notin DOMAIN nt.pages
        THEN Outcome(nt, <<PagesRetrieve(source_id)>>,
                     ServiceError("APIResponseError"), <<>>)
        ELSE LET property_name == NotionPropertyMap[link_type]
                 existing_relations == nt.pages[source_id][property_name]
                 update == PagesUpdate(source_id,
                               NotionRelationUpdate(property_name,
                                   NotionAddRelations(existing_relations, target_ids)))
                 r == NotionExecuteUpdate(nt, update)
             IN  Outcome(r.svc, <<PagesRetrieve(source_id), update>>, r.error, <<>>)

\* variant of Notion_remove_link: recursive=True empties the relation
Notion_remove_link_Recursive(nt, source_id, target_ids, link_type_arg, recursive) ==
    LET link_type == NormalizeLinkType(link_type_arg)
    IN  IF link_type \notin DOMAIN NotionPropertyMap
        THEN Outcome(nt, <<>>, UnsupportedLinkType(link_type, NotionSupported), <<>>)
        ELSE IF source_id \notin DOMAIN nt.pages
        THEN Outcome(nt, <<PagesRetrieve(source_id)>>,
                     ServiceError("APIResponseError"), <<>>)
        ELSE LET property_name == NotionPropertyMap[link_type]
                 existing_relations == nt.pages[source_id][property_name]
                 remaining_relations ==
                     IF recursive THEN <<>>
                     ELSE NotionRemainingRelations(existing_relations, target_ids)
                 update == PagesUpdate(source_id,
                               NotionRelationUpdate(property_name, remaining_relations))
                 r == NotionExecuteUpdate(nt, update)
             IN  Outcome(r.svc, <<PagesRetrieve(source_id), update>>, r.error, <<>>)

\* NotionBackend.remove_link; recursive is not read
Notion_remove_link(nt, source_id, target_ids, link_type_arg, recursive) ==
    LET link_type == NormalizeLinkType(link_type_arg)
    IN  IF link_type \notin DOMAIN NotionPropertyMap
        THEN Outcome(nt, <<>>, UnsupportedLinkType(link_type, NotionSupported), <<>>)
        ELSE IF source_id \notin DOMAIN nt.pages
        THEN Outcome(nt, <<PagesRetrieve(source_id)>>,
                     ServiceError("APIResponseError"), <<>>)
        ELSE LET property_name == NotionPropertyMap[link_type]
                 existing_relations == nt.pages[source_id][property_name]
                 update == PagesUpdate(source_id,
                               NotionRelationUpdate(property_name,
                                   NotionRemainingRelations(existing_relations,
                                                            target_ids)))
                 r == NotionExecuteUpdate(nt, update)
             IN  Outcome(r.svc, <<PagesRetrieve(source_id), update>>, r.error, <<>>)

\* variant of NotionLinksOf: without a link type the Children relation is skipped
RECURSIVE NotionLinksOf_NoneSkipsChildren(_, _, _, _)
NotionLinksOf_NoneSkipsChildren(page, entity_id, link_type, i) ==
    IF i > Len(RelationProperties) THEN <<>>
    ELSE LET property_name == RelationProperties[i]
             relation_type == NotionRelationType(property_name)
             relations == page[property_name]
             given == link_type # NoLinkType /\ link_type # <<>>
             skip == IF given THEN relation_type # link_type
                     ELSE relation_type = CHILDREN
         IN  (IF skip THEN <<>>
              ELSE [j \in 1..Len(relations) |->
                       Link(entity_id, relations[j], relation_type)])
             \o NotionLinksOf_NoneSkipsChildren(page, entity_id, link_type, i + 1)

\* "for property_name, relation_type in property_map.items()" of list_links
RECURSIVE NotionLinksOf(_, _, _, _)
NotionLinksOf(page, entity_id, link_type, i) ==
    IF i > Len(RelationProperties) THEN <<>>
    ELSE LET property_name == RelationProperties[i]
             relation_type == NotionRelationType(property_name)
             relations == page[property_name]
             skip == link_type # NoLinkType /\ link_type # <<>>
                     /\ relation_type # link_type
         IN  (IF skip THEN <<>>
              ELSE [j \in 1..Len(relations) |->
                       Link(entity_id, relations[j], relation_type)])
             \o NotionLinksOf(page, entity_id, link_type, i + 1)

\* NotionBackend.list_links
Notion_list_links(nt, entity_id, link_type_arg) ==
    LET link_type ==
            IF link_type_arg # NoLinkType /\ link_type_arg # <<>>
            THEN NormalizeLinkType(link_type_arg) ELSE link_type_arg
    IN  IF entity_id \notin DOMAIN nt.pages
        THEN Outcome(nt, <<PagesRetrieve(entity_id)>>,
                     ServiceError("APIResponseError"), <<>>)
        ELSE Outcome(nt, <<PagesRetrieve(entity_id)>>, NoError,
                     NotionLinksOf(nt.pages[entity_id], entity_id, link_type, 1))

(***************************************************************************)
(* The bd project.  A bead id is <<prefix, hash>>: <<"bd-", 1>> is "bd-1",  *)
(* <<"", 1>> is the bare hash "1".                                         *)
(*   issues : hash -> issue, for the issues that exist                     *)
(*   deps   : triples <<issue, depends-on, dependency type>>               *)
(***************************************************************************)
BeadId(n) == <<"bd-", n>>

BareId(n) == <<"", n>>

BeadsIdInputs == {BeadId(n) : n \in Ids} \cup {BareId(n) : n \in Ids}

BeadsTargetLists == UNION {[1..n -> BeadsIdInputs] : n \in 1..MaxTargets}

\* BeadsBackend._entity_id_to_bead_id
EntityIdToBeadId(entity_id) ==
    IF entity_id[1] = "bd-" THEN entity_id ELSE <<"bd-", entity_id[2]>>

\* "beads supports: blocks, related, parent-child, discovered-from"
BeadsNativeTypes == {BLOCKS, RELATED, PARENT_CHILD, DISCOVERED_FROM}

BeadsLinkCount(bd) == Cardinality(bd.deps)

BeadsExists(bd, bead_id) == bead_id[1] = "bd-" /\ bead_id[2] \in DOMAIN bd.issues

\* bd dep add <source> <target> --type <type> --json
DepAdd(source, target, type) ==
    [name |-> "dep add", source |-> source, target |-> target, type |-> type]

\* bd dep remove <source> <target> --type <type> --json
DepRemove(source, target, type) ==
    [name |-> "dep remove", source |-> source, target |-> target, type |-> type]

\* bd show <id> --json
Show(bead_id) == [name |-> "show", id |-> bead_id]

\* the project after a bd dep command; a non-zero exit is CalledProcessError
BeadsExecuteDep(bd, cmd) ==
    LET dep == <<cmd.source[2], cmd.target[2], cmd.type>>
        known == BeadsExists(bd, cmd.source) /\ BeadsExists(bd, cmd.target)
    IN  CASE cmd.name = "dep add" ->
                IF ~known \/ cmd.type \notin BeadsNativeTypes
                   \/ cmd.source = cmd.target
                THEN [svc |-> bd, error |-> ServiceError("CalledProcessError")]
                ELSE [svc |-> [bd EXCEPT !.deps = @ \cup {dep}], error |-> NoError]
          [] cmd.name = "dep remove" ->
                IF ~known \/ dep \notin bd.deps
                THEN [svc |-> bd, error |-> ServiceError("CalledProcessError")]
                ELSE [svc |-> [bd EXCEPT !.deps = @ \ {dep}], error |-> NoError]

\* beads_type = link_type; if link_type == "relates_to": beads_type = "related"
\* variant of BeadsType: every link type is passed on as it is
BeadsType_Verbatim(link_type) == link_type

BeadsType(link_type) == IF link_type = RELATES_TO THEN RELATED ELSE link_type

\* "for target_id in target_ids" of add_link (add = TRUE) and remove_link
RECURSIVE BeadsProcessTargets(_, _, _, _, _, _)
BeadsProcessTargets(acc, add, source_bead_id, target_ids, beads_type, i) ==
    IF i > Len(target_ids) \/ acc.error # NoError THEN acc
    ELSE LET target_bead_id == EntityIdToBeadId(target_ids[i])
             cmd == IF add THEN DepAdd(source_bead_id, target_bead_id, beads_type)
                    ELSE DepRemove(source_bead_id, target_bead_id, beads_type)
             r == BeadsExecuteDep(acc.svc, cmd)
         IN  BeadsProcessTargets(
                 Outcome(r.svc, Append(acc.calls, cmd), r.error, <<>>),
                 add, source_bead_id, target_ids, beads_type, i + 1)

\* BeadsBackend.add_link
Beads_add_link(bd, source_id, target_ids, link_type) ==
    BeadsProcessTargets(Outcome(bd, <<>>, NoError, <<>>), TRUE,
                        EntityIdToBeadId(source_id), target_ids,
                        BeadsType(link_type), 1)

\* BeadsBackend.remove_link; recursive is not read
Beads_remove_link(bd, source_id, target_ids, link_type, recursive) ==
    BeadsProcessTargets(Outcome(bd, <<>>, NoError, <<>>), FALSE,
                        EntityIdToBeadId(source_id), target_ids,
                        BeadsType(link_type), 1)

\* the "dependencies" of bd show, as a list of [type, target_id]
RECURSIVE BeadsDependencies(_)
BeadsDependencies(deps) ==
    IF deps = {} THEN <<>>
    ELSE LET d == CHOOSE x \in deps : TRUE
         IN  <<[type |-> d[3], target_id |-> BeadId(d[2])]>>
             \o BeadsDependencies(deps \ {d})

\* "for dep in dependencies" of list_links
RECURSIVE BeadsLinksOf(_, _, _)
BeadsLinksOf(dependencies, bead_id, link_type) ==
    IF dependencies = <<>> THEN <<>>
    ELSE LET dep == Head(dependencies)
         IN  (IF link_type = NoLinkType \/ dep.type = link_type
              THEN <<Link(bead_id, dep.target_id, dep.type)>>
              ELSE <<>>)
             \o BeadsLinksOf(Tail(dependencies), bead_id, link_type)

\* BeadsBackend.list_links
Beads_list_links(bd, entity_id, link_type) ==
    LET bead_id == EntityIdToBeadId(entity_id)
    IN  IF ~BeadsExists(bd, bead_id)
        THEN Outcome(bd, <<Show(bead_id)>>, ServiceError("CalledProcessError"), <<>>)
        ELSE Outcome(bd, <<Show(bead_id)>>, NoError,
                     BeadsLinksOf(
                         BeadsDependencies({d \in bd.deps : d[1] = bead_id[2]}),
                         bead_id, link_type))

(***************************************************************************)
(* Entities held by the services.                                          *)
(***************************************************************************)
\* Python's None, for the plain strings
None == "<None>"

OPEN == <<"o","p","e","n">>
CLOSED == <<"c","l","o","s","e","d">>
GH_OPEN == <<"O","P","E","N">>
GH_CLOSED == <<"C","L","O","S","E","D">>

\* an issue as GitHub holds it
GitHubIssue(title, body, state, labels, assignee) ==
    [title |-> title, body |-> body, state |-> state, labels |-> labels,
     assignee |-> assignee]

\* a page as Notion holds it (the properties _parse_properties reads)
NotionPage(name, description, status, labels, people) ==
    [k \in {"Name", "Description", "Status", "Labels", "Assignee",
            "Blocked By", "Blocking", "Parent", "Children", "archived"} |->
        CASE k = "Name" -> name
          [] k = "Description" -> description
          [] k = "Status" -> status
          [] k = "Labels" -> labels
          [] k = "Assignee" -> people
          [] k = "archived" -> FALSE
          [] OTHER -> <<>>]

\* an issue as bd holds it
Bead(title, description, status, labels, assignee) ==
    [title |-> title, description |-> description, status |-> status,
     labels |-> labels, assignee |-> assignee]

\* a service holding the entities `ids`, all plain, and no link
PlainGitHub(ids) ==
    [issues |-> [n \in ids |-> GitHubIssue("t1", "", GH_OPEN, <<>>, None)],
     blockedBy |-> {},
     parent |-> [n \in ids |-> 0],
     repo_labels |-> {},
     _config |-> <<>>]

PlainNotion(ids) ==
    [pages |-> [n \in ids |-> NotionPage("t1", "", Title(OPEN), <<>>, <<>>)]]

PlainBeads(ids) ==
    [issues |-> [n \in ids |-> Bead("t1", "", OPEN, <<>>, None)],
     deps |-> {},
     config |-> <<>>]

Backends == {"github", "notion", "beads"}

(***************************************************************************)
(* The record of the last backend call.                                    *)
(***************************************************************************)
NoArgs == [given |-> {}]

NoEntity == [id |-> 0]

NoOp ==
    [op |-> "none", source_id |-> 0, target_ids |-> <<>>, link_type |-> <<>>,
     recursive |-> FALSE, args |-> NoArgs, error |-> NoError, calls |-> <<>>,
     links |-> <<>>, entity |-> NoEntity, key |-> "", value |-> "",
     result |-> <<>>, failed |-> {}]

\* a link call (add_link, remove_link, list_links) and its outcome r
LinkOp(op, source_id, target_ids, link_type, recursive, r) ==
    [NoOp EXCEPT !.op = op, !.source_id = source_id, !.target_ids = target_ids,
                 !.link_type = link_type, !.recursive = recursive,
                 !.error = r.error, !.calls = r.calls, !.links = r.links]

Procs == {1, 2}

\* no Config instance constructed
NoConfig ==
    [is_global |-> FALSE, _config |-> <<>>, _global_config |-> <<>>,
     config_file |-> <<>>, global_config_file |-> <<>>]

IdleProcs == [p \in Procs |-> "idle"]

NoLocals == [p \in Procs |-> [source_id |-> 0, target_ids |-> <<>>,
                              property_name |-> "", existing_relations |-> <<>>]]

(***************************************************************************)
(* Link operations of the three backends, one call at a time.              *)
(***************************************************************************)
InitLinks ==
    /\ backend \in Backends
    /\ github = PlainGitHub(Ids)
    /\ notion = PlainNotion(Ids)
    /\ beads = PlainBeads(Ids)
    /\ lastOp = NoOp
    /\ pc = IdleProcs
    /\ local = NoLocals
    /\ config = NoConfig

GitHubAddLink ==
    /\ backend = "github"
    /\ lastOp.op = "none"
    /\ \E source_id \in Ids, target_ids \in TargetLists, link_type \in LinkTypeInputs :
          LET r == GitHub_add_link(github, source_id, target_ids, link_type)
          IN  /\ GitHubLinkCount(r.svc) <= MaxLinks
              /\ github' = r.svc
              /\ lastOp' = LinkOp("add_link", source_id, target_ids, link_type, FALSE, r)
    /\ UNCHANGED <<backend, notion, beads, pc, local, config>>

GitHubRemoveLink ==
    /\ backend = "github"
    /\ lastOp.op = "none"
    /\ \E source_id \in Ids, target_ids \in TargetLists, link_type \in LinkTypeInputs,
          recursive \in BOOLEAN :
          LET r == GitHub_remove_link(github, source_id, target_ids, link_type, recursive)
          IN  /\ github' = r.svc
              /\ lastOp' = LinkOp("remove_link", source_id, target_ids, link_type,
                                  recursive, r)
    /\ UNCHANGED <<backend, notion, beads, pc, local, config>>

GitHubListLinks ==
    /\ backend = "github"
    /\ lastOp.op = "none"
    /\ \E entity_id \in Ids, link_type \in LinkTypeInputs \cup {NoLinkType} :
          LET r == GitHub_list_links(github, entity_id, link_type)
          IN  lastOp' = LinkOp("list_links", entity_id, <<>>, link_type, FALSE, r)
    /\ UNCHANGED <<backend, github, notion, beads, pc, local, config>>

NotionAddLink ==
    /\ backend = "notion"
    /\ lastOp.op = "none"
    /\ \E source_id \in Ids, target_ids \in TargetLists, link_type \in LinkTypeInputs :
          LET r == Notion_add_link(notion, source_id, target_ids, link_type)
          IN  /\ NotionLinkCount(r.svc) <= MaxLinks
              /\ notion' = r.svc
              /\ lastOp' = LinkOp("add_link", source_id, target_ids, link_type, FALSE, r)
    /\ UNCHANGED <<backend, github, beads, pc, local, config>>

NotionRemoveLink ==
    /\ backend = "notion"
    /\ lastOp.op = "none"
    /\ \E source_id \in Ids, target_ids \in TargetLists, link_type \in LinkTypeInputs,
          recursive \in BOOLEAN :
          LET r == Notion_remove_link(notion, source_id, target_ids, link_type, recursive)
          IN  /\ notion' = r.svc
              /\ lastOp' = LinkOp("remove_link", source_id, target_ids, link_type,
                                  recursive, r)
    /\ UNCHANGED <<backend, github, beads, pc, local, config>>

NotionListLinks ==
    /\ backend = "notion"
    /\ lastOp.op = "none"
    /\ \E entity_id \in Ids, link_type \in LinkTypeInputs \cup {NoLinkType} :
          LET r == Notion_list_links(notion, entity_id, link_type)
          IN  lastOp' = LinkOp("list_links", entity_id, <<>>, link_type, FALSE, r)
    /\ UNCHANGED <<backend, github, notion, beads, pc, local, config>>

BeadsAddLink ==
    /\ backend = "beads"
    /\ lastOp.op = "none"
    /\ \E source_id \in BeadsIdInputs, target_ids \in BeadsTargetLists,
          link_type \in LinkTypeInputs :
          LET r == Beads_add_link(beads, source_id, target_ids, link_type)
          IN  /\ BeadsLinkCount(r.svc) <= MaxLinks
              /\ beads' = r.svc
              /\ lastOp' = LinkOp("add_link", source_id, target_ids, link_type, FALSE, r)
    /\ UNCHANGED <<backend, github, notion, pc, local, config>>

BeadsRemoveLink ==
    /\ backend = "beads"
    /\ lastOp.op = "none"
    /\ \E source_id \in BeadsIdInputs, target_ids \in BeadsTargetLists,
          link_type \in LinkTypeInputs, recursive \in BOOLEAN :
          LET r == Beads_remove_link(beads, source_id, target_ids, link_type, recursive)
          IN  /\ beads' = r.svc
              /\ lastOp' = LinkOp("remove_link", source_id, target_ids, link_type,
                                  recursive, r)
    /\ UNCHANGED <<backend, github, notion, pc, local, config>>

BeadsListLinks ==
    /\ backend = "beads"
    /\ lastOp.op = "none"
    /\ \E entity_id \in BeadsIdInputs, link_type \in LinkTypeInputs \cup {NoLinkType} :
          LET r == Beads_list_links(beads, entity_id, link_type)
          IN  lastOp' = LinkOp("list_links", entity_id, <<>>, link_type, FALSE, r)
    /\ UNCHANGED <<backend, github, notion, beads, pc, local, config>>

\* the call returns to its caller: each command is one backend call (spec 5,
\* "no concurrent execution of multiple backend calls within one logical command")
Return ==
    /\ lastOp.op # "none"
    /\ lastOp' = NoOp
    /\ UNCHANGED <<backend, github, notion, beads, pc, local, config>>

NextLinks ==
    \/ GitHubAddLink
    \/ GitHubRemoveLink
    \/ GitHubListLinks
    \/ NotionAddLink
    \/ NotionRemoveLink
    \/ NotionListLinks
    \/ BeadsAddLink
    \/ BeadsRemoveLink
    \/ BeadsListLinks
    \/ Return

SpecLinks == InitLinks /\ [][NextLinks]_vars

(***************************************************************************)
(* Properties of the link operations.                                      *)
(***************************************************************************)
\* the service of the backend in use
Service == CASE backend = "github" -> github
             [] backend = "notion" -> notion
             [] backend = "beads" -> beads

\* list_links of the backend in use, on the service state svc
ListLinksOn(svc, entity_id, link_type) ==
    CASE backend = "github" -> GitHub_list_links(svc, entity_id, link_type)
      [] backend = "notion" -> Notion_list_links(svc, entity_id, link_type)
      [] backend = "beads" -> Beads_list_links(svc, entity_id, link_type)

\* remove_link of the backend in use, on the service state svc
RemoveLinkOn(svc, source_id, target_ids, link_type, recursive) ==
    CASE backend = "github" ->
            GitHub_remove_link(svc, source_id, target_ids, link_type, recursive)
      [] backend = "notion" ->
            Notion_remove_link(svc, source_id, target_ids, link_type, recursive)
      [] backend = "beads" ->
            Beads_remove_link(svc, source_id, target_ids, link_type, recursive)

\* the id under which the backend reports an entity
ReportedId(entity_id) ==
    IF backend = "beads" THEN EntityIdToBeadId(entity_id) ELSE entity_id

\* the ids of the existing entities, as the backend reports them
EntityIds ==
    IF backend = "beads" THEN {BeadId(n) : n \in Ids} ELSE Ids

CountLinks(links, l) == Cardinality({i \in 1..Len(links) : links[i] = l})

LinksTo(links, target_id) == {i \in 1..Len(links) : links[i].target_id = target_id}

\* the calls that change the service, among the calls issued
Mutations(calls) ==
    SelectSeq(calls, LAMBDA c : c.name \notin {"GetIssueId", "GetIssueLinks", "GetIssue",
                                               "pages.retrieve", "show"})

\* the last call was a successful add_link(A, [B], link type) with A # B
AddedOne ==
    /\ lastOp.op = "add_link"
    /\ lastOp.error = NoError
    /\ Len(lastOp.target_ids) = 1
    /\ ReportedId(lastOp.target_ids[1]) # ReportedId(lastOp.source_id)

\* C2: on every backend, after add_link(A, [B], "parent") succeeded for existing
\* entities A # B, list_links(A, "parent") holds the link A -> B typed "parent"
\* exactly once.
C2_ParentLinkListedOnce ==
    (AddedOne /\ lastOp.link_type = PARENT /\ lastOp.source_id \in EntityIds)
        => CountLinks(ListLinksOn(Service, lastOp.source_id, PARENT).links,
                      Link(lastOp.source_id, ReportedId(lastOp.target_ids[1]), PARENT))
           = 1

\* C3: on every backend, for every link type t add_link accepts, remove_link(A, [B], t)
\* right after a successful add_link(A, [B], t) returns, and list_links(A, t) then
\* holds no link from A to B.
C3_RemoveAfterAddUnlinks ==
    AddedOne =>
        LET removed == RemoveLinkOn(Service, lastOp.source_id, lastOp.target_ids,
                                    lastOp.link_type, FALSE)
            listed == ListLinksOn(removed.svc, lastOp.source_id, lastOp.link_type)
        IN  /\ removed.error = NoError
            /\ listed.error = NoError
            /\ LinksTo(listed.links, ReportedId(lastOp.target_ids[1])) = {}

\* C3 witness: add_link made the link visible to list_links, and the remove_link
\* with the same arguments takes it away.
C3_Witness ==
    /\ AddedOne
    /\ LinksTo(ListLinksOn(Service, lastOp.source_id, lastOp.link_type).links,
               ReportedId(lastOp.target_ids[1])) # {}
    /\ LET removed == RemoveLinkOn(Service, lastOp.source_id, lastOp.target_ids,
                                   lastOp.link_type, FALSE)
       IN  /\ removed.error = NoError
           /\ removed.svc # Service
           /\ LinksTo(ListLinksOn(removed.svc, lastOp.source_id,
                                  lastOp.link_type).links,
                      ReportedId(lastOp.target_ids[1])) = {}

\* C7: on GitHub, add_link(A, [B], "blocking") issues the addBlockedBy call of
\* add_link(B, [A], "blocked by"), with issueId = B and blockingIssueId = A, and
\* has the same outcome; remove_link likewise with removeBlockedBy.
C7_BlockingIsInverseBlockedBy ==
    [][(/\ backend = "github"
        /\ lastOp'.op \in {"add_link", "remove_link"}
        /\ lastOp'.link_type = BLOCKING
        /\ Len(lastOp'.target_ids) = 1)
       => LET A == lastOp'.source_id
              B == lastOp'.target_ids[1]
              inverse == IF lastOp'.op = "add_link"
                         THEN GitHub_add_link(github, B, <<A>>, BLOCKED_BY)
                         ELSE GitHub_remove_link(github, B, <<A>>, BLOCKED_BY, FALSE)
              native == IF lastOp'.op = "add_link"
                        THEN AddBlockedBy(NodeId(B), NodeId(A))
                        ELSE RemoveBlockedBy(NodeId(B), NodeId(A))
          IN  /\ Mutations(lastOp'.calls) = <<native>>
              /\ Mutations(inverse.calls) = <<native>>
              /\ lastOp'.error = inverse.error
              /\ github' = inverse.svc]_vars

\* C7 witness: add_link(A, [B], "blocking") succeeded and B is blocked by A.
C7_Witness ==
    /\ backend = "github"
    /\ AddedOne
    /\ lastOp.link_type = BLOCKING
    /\ <<lastOp.target_ids[1], lastOp.source_id>> \in github.blockedBy

\* the last call is a GitHub link call that was given a link type
GitHubTypedCall ==
    /\ backend = "github"
    /\ lastOp.op \in {"add_link", "remove_link", "list_links"}
    /\ lastOp.link_type \notin {NoLinkType, <<>>}

\* C8 as claimed: on GitHub, add_link, remove_link and list_links each fail with
\* the unsupported-link-type error exactly for the types outside
\* {blocked by, blocking, parent, children}.
C8_FourTypesEverywhere ==
    GitHubTypedCall =>
        ((lastOp.error.kind = "Unsupported link type")
            <=> NormalizeLinkType(lastOp.link_type) \notin
                    {BLOCKED_BY, BLOCKING, PARENT, CHILDREN})

\* C8 amended: on GitHub, add_link and remove_link fail with the unsupported-link-type
\* error exactly for the types outside {blocked by, blocking, parent}; list_links
\* exactly for the types outside {blocked by, blocking, parent, children}.
C8_SupportedTypes ==
    GitHubTypedCall =>
        ((lastOp.error.kind = "Unsupported link type")
            <=> NormalizeLinkType(lastOp.link_type) \notin
                    (IF lastOp.op = "list_links"
                     THEN {BLOCKED_BY, BLOCKING, PARENT, CHILDREN}
                     ELSE {BLOCKED_BY, BLOCKING, PARENT}))

\* C8 witness: add_link with "children" is refused as unsupported.
C8_Witness ==
    /\ GitHubTypedCall
    /\ lastOp.op = "add_link"
    /\ lastOp.link_type = CHILDREN
    /\ lastOp.error.kind = "Unsupported link type"

\* the link types add_link and remove_link of the backend in use refuse
UnsupportedForChange(link_type) ==
    NormalizeLinkType(link_type) \notin
        (IF backend = "github" THEN {BLOCKED_BY, BLOCKING, PARENT}
         ELSE {BLOCKED_BY, BLOCKING, PARENT, CHILDREN})

\* C9: on GitHub and Notion, add_link or remove_link with an unsupported link type
\* raises the unsupported-link-type error naming the type and the supported types,
\* issues no call to the service and changes no link and no entity.
C9_UnsupportedFailsBeforeAnyCall ==
    [][(/\ backend \in {"github", "notion"}
        /\ lastOp'.op \in {"add_link", "remove_link"}
        /\ UnsupportedForChange(lastOp'.link_type))
       => /\ lastOp'.error.kind = "Unsupported link type"
          /\ lastOp'.error.link_type = NormalizeLinkType(lastOp'.link_type)
          /\ SeqRange(lastOp'.error.supported) =
                (IF backend = "github" THEN {BLOCKED_BY, BLOCKING, PARENT}
                 ELSE {BLOCKED_BY, BLOCKING, PARENT, CHILDREN})
          /\ lastOp'.calls = <<>>
          /\ github' = github
          /\ notion' = notion]_vars

\* C9 witness: a Notion add_link with "invalid_type" failed on a database that
\* holds links.
C9_Witness ==
    /\ backend = "notion"
    /\ lastOp.op = "add_link"
    /\ lastOp.link_type = INVALID_TYPE
    /\ lastOp.error.kind = "Unsupported link type"
    /\ NotionLinkCount(notion) > 0

\* spellings that differ from a supported type in case or surrounding whitespace
VariantOf(link_type) ==
    CASE link_type = BLOCKED_BY_UPPER -> BLOCKED_BY
      [] link_type = PARENT_PADDED -> PARENT
      [] link_type = BLOCKING_MIXED -> BLOCKING

Variants == {BLOCKED_BY_UPPER, PARENT_PADDED, BLOCKING_MIXED}

\* C10: on GitHub, add_link, remove_link and list_links called with a spelling of a
\* supported type that differs in case or surrounding whitespace issue the calls,
\* leave the state and return the result of the call with the type itself.
C10_CaseAndWhitespaceInsensitive ==
    [][(/\ backend = "github"
        /\ lastOp'.op \in {"add_link", "remove_link", "list_links"}
        /\ lastOp'.link_type \in Variants)
       => LET t == VariantOf(lastOp'.link_type)
              same ==
                  CASE lastOp'.op = "add_link" ->
                          GitHub_add_link(github, lastOp'.source_id,
                                          lastOp'.target_ids, t)
                    [] lastOp'.op = "remove_link" ->
                          GitHub_remove_link(github, lastOp'.source_id,
                                             lastOp'.target_ids, t, lastOp'.recursive)
                    [] lastOp'.op = "list_links" ->
                          GitHub_list_links(github, lastOp'.source_id, t)
          IN  /\ lastOp'.calls = same.calls
              /\ lastOp'.error = same.error
              /\ lastOp'.links = same.links
              /\ github' = same.svc]_vars

\* C10 witness: list_links(A, " Parent ") returned the parent link of A.
C10_Witness ==
    /\ backend = "github"
    /\ lastOp.op = "list_links"
    /\ lastOp.link_type = PARENT_PADDED
    /\ lastOp.error = NoError
    /\ Len(lastOp.links) = 1
    /\ lastOp.links[1].link_type = PARENT

\* C14: on all three backends, remove_link with recursive=True issues the calls,
\* leaves the service and raises the error of the same call with recursive=False.
C14_RecursiveIgnored ==
    [][(lastOp'.op = "remove_link" /\ lastOp'.recursive)
       => LET same == RemoveLinkOn(Service, lastOp'.source_id, lastOp'.target_ids,
                                   lastOp'.link_type, FALSE)
          IN  /\ lastOp'.calls = same.calls
              /\ lastOp'.error = same.error
              /\ Service' = same.svc]_vars

\* C14 witness: a Notion remove_link with recursive=True removed one of the two
\* links of a relation.
C14_Witness ==
    /\ backend = "notion"
    /\ lastOp.op = "remove_link"
    /\ lastOp.recursive
    /\ lastOp.error = NoError
    /\ lastOp.link_type = BLOCKING
    /\ lastOp.target_ids = <<1>>
    /\ lastOp.source_id = 1
    /\ notion.pages[1]["Blocking"] = <<2>>

\* the four link types of list_links on GitHub and Notion, in a list
FourTypes == <<BLOCKED_BY, BLOCKING, PARENT, CHILDREN>>

\* C15: on GitHub and Notion, list_links(X, None) returns the links that
\* list_links(X, t) returns for the four types t, each as often, and no other.
C15_NoneIsUnionOfTypes ==
    (/\ backend \in {"github", "notion"}
     /\ lastOp.op = "list_links"
     /\ lastOp.link_type = NoLinkType
     /\ lastOp.error = NoError)
        => LET typed == [i \in 1..4 |->
                            ListLinksOn(Service, lastOp.source_id, FourTypes[i]).links]
           IN  /\ SeqRange(lastOp.links) = UNION {SeqRange(typed[i]) : i \in 1..4}
               /\ Len(lastOp.links) =
                      Len(typed[1]) + Len(typed[2]) + Len(typed[3]) + Len(typed[4])
               /\ \A i \in 1..4 : \A j \in 1..Len(typed[i]) :
                      typed[i][j].link_type = FourTypes[i]

\* C15 witness: list_links(X, None) on Notion returned a children link and a
\* link of another type.
C15_Witness ==
    /\ backend = "notion"
    /\ lastOp.op = "list_links"
    /\ lastOp.link_type = NoLinkType
    /\ lastOp.error = NoError
    /\ \E i, j \in 1..Len(lastOp.links) :
          /\ lastOp.links[i].link_type = CHILDREN
          /\ lastOp.links[j].link_type = BLOCKED_BY

(***************************************************************************)
(* Two concurrent add_link calls on the Notion backend.  A call retrieves   *)
(* the page, then writes the whole relation list; the two steps of          *)
(* different calls interleave.                                              *)
(***************************************************************************)
RacePages == {1, 2, 3}

RaceTargetLists == UNION {[1..n -> RacePages] : n \in 1..MaxTargets}

RaceLinkTypes == {PARENT, BLOCKING, INVALID_TYPE}

InitRace ==
    /\ backend = "notion"
    /\ github = PlainGitHub(Ids)
    /\ notion = PlainNotion(RacePages)
    /\ beads = PlainBeads(Ids)
    /\ lastOp = NoOp
    /\ pc = IdleProcs
    /\ local = NoLocals
    /\ config = NoConfig

\* add_link up to and including client.pages.retrieve
AddLinkRetrieve(p) ==
    /\ pc[p] = "idle"
    /\ \E source_id \in Ids, target_ids \in RaceTargetLists, link_type_arg \in RaceLinkTypes :
          LET link_type == NormalizeLinkType(link_type_arg)
          IN  IF link_type \notin DOMAIN NotionPropertyMap
              THEN /\ pc' = [pc EXCEPT ![p] = "failed"]
                   /\ local' = local
              ELSE /\ pc' = [pc EXCEPT ![p] = "retrieved"]
                   /\ local' = [local EXCEPT ![p] =
                          [source_id |-> source_id,
                           target_ids |-> target_ids,
                           property_name |-> NotionPropertyMap[link_type],
                           existing_relations |->
                               notion.pages[source_id][NotionPropertyMap[link_type]]]]
    /\ UNCHANGED <<backend, github, notion, beads, lastOp, config>>

\* add_link from the merge of the lists to client.pages.update
AddLinkUpdate(p) ==
    /\ pc[p] = "retrieved"
    /\ LET l == local[p]
           update == PagesUpdate(l.source_id,
                         NotionRelationUpdate(l.property_name,
                             NotionAddRelations(l.existing_relations, l.target_ids)))
       IN  notion' = NotionExecuteUpdate(notion, update).svc
    /\ pc' = [pc EXCEPT ![p] = "done"]
    /\ UNCHANGED <<backend, github, beads, lastOp, local, config>>

NextRace ==
    \E p \in Procs :
        \/ AddLinkRetrieve(p)
        \/ AddLinkUpdate(p)

SpecRace == InitRace /\ [][NextRace]_vars

\* both calls have written, to the same relation of the same page
RaceOver ==
    /\ \A p \in Procs : pc[p] = "done"
    /\ local[1].source_id = local[2].source_id
    /\ local[1].property_name = local[2].property_name

\* the relation both calls wrote, as stored
RaceStored == notion.pages[local[1].source_id][local[1].property_name]

\* C1: after two concurrent Notion add_link calls on one source and one link type,
\* the stored relation list is the list one of the calls wrote (what it read plus
\* its targets), and it lacks a target of a call only when both calls read the
\* list before either wrote: the last write wins and the other update is lost.
C1_LastWriteWins ==
    RaceOver =>
        /\ \E p \in Procs :
              SeqRange(RaceStored) =
                  SeqRange(local[p].existing_relations) \cup SeqRange(local[p].target_ids)
        /\ (\E q \in Procs : ~(SeqRange(local[q].target_ids) \subseteq SeqRange(RaceStored)))
              => /\ local[1].existing_relations = <<>>
                 /\ local[2].existing_relations = <<>>

\* C1 witness: the calls add 2 and 3 to the parent relation of page 1 and the
\* stored list lacks 2.
C1_Witness ==
    /\ RaceOver
    /\ local[1].source_id = 1
    /\ local[1].property_name = "Parent"
    /\ local[1].target_ids = <<2>>
    /\ local[2].target_ids = <<3>>
    /\ RaceStored = <<3>>

(***************************************************************************)
(* Labels.  A Python dict of labels is the sequence of its <<key, value>>   *)
(* items in insertion order, keys distinct; a label as a service holds it   *)
(* is its name, a string.                                                   *)
(***************************************************************************)
\* d[key] = value
RECURSIVE DictSet(_, _, _)
DictSet(d, key, value) ==
    IF d = <<>> THEN << <<key, value>> >>
    ELSE IF Head(d)[1] = key THEN << <<key, value>> >> \o Tail(d)
         ELSE <<Head(d)>> \o DictSet(Tail(d), key, value)

\* the items of a dict; two dicts are equal when their items are
DictItems(d) == SeqRange(d)

\* variant of FormatLabel: the value is dropped
FormatLabel_KeyOnly(k, v) == k

\* f"{k}:{v}" if v else k
FormatLabel(k, v) == IF v # <<>> THEN k \o <<":">> \o v ELSE k

\* [f"{k}:{v}" if v else k for k, v in labels.items()]
FormatLabels(labels) ==
    [i \in 1..Len(labels) |-> FormatLabel(labels[i][1], labels[i][2])]

\* ":" in name
HasColon(name) == \E i \in 1..Len(name) : name[i] = ":"

\* name.split(":", 1)
SplitLabel(name) ==
    LET i == CHOOSE j \in 1..Len(name) :
                 name[j] = ":" /\ \A k \in 1..(j - 1) : name[k] # ":"
    IN  <<SubSeq(name, 1, i - 1), SubSeq(name, i + 1, Len(name))>>

\* the loop that fills `labels` from label names; `strip` as in NotionBackend
RECURSIVE ParseLabelNames(_, _, _)
ParseLabelNames(labels, names, strip) ==
    IF names = <<>> THEN labels
    ELSE LET name == Head(names)
             kv == SplitLabel(name)
             next ==
                 IF HasColon(name)
                 THEN IF strip THEN DictSet(labels, Strip(kv[1]), Strip(kv[2]))
                      ELSE DictSet(labels, kv[1], kv[2])
                 ELSE DictSet(labels, name, <<>>)
         IN  ParseLabelNames(next, Tail(names), strip)

\* a list of names without repetitions, first occurrences kept
RECURSIVE Distinct(_)
Distinct(names) ==
    IF names = <<>> THEN <<>>
    ELSE <<Head(names)>> \o Distinct(SeqWithout(Tail(names), {Head(names)}))

(***************************************************************************)
(* Entities and the arguments of update.                                   *)
(***************************************************************************)
Entity(id, title, description, labels, assignee, status) ==
    [id |-> id, title |-> title, description |-> description, labels |-> labels,
     assignee |-> assignee, status |-> status]

IN_PROGRESS == <<"i","n","_","p","r","o","g","r","e","s","s">>

KEY_A == <<"a">>
KEY_A2 == <<"a",":","2">>
KEY_B == <<"b">>
VALUE_1 == <<"1">>

Fields == {"title", "description", "labels", "status", "assignee"}

\* the arguments of update; an argument not in `given` is None
UpdateArgs ==
    {a \in [given : SUBSET Fields,
            title : {None, "t2", ""},
            description : {None, "d2", ""},
            labels : {<<>>,
                      << <<KEY_A, VALUE_1>> >>,
                      << <<KEY_B, <<>>>> >>,
                      << <<KEY_A, VALUE_1>>, <<KEY_B, <<>>>> >>,
                      << <<KEY_A, VALUE_1>>, <<KEY_A2, <<>>>> >>},
            status : {<<>>, OPEN, CLOSED, IN_PROGRESS},
            assignee : {None, "u1", ""}] :
        /\ Cardinality(a.given) <= MaxFields
        /\ ("title" \in a.given) <=> (a.title # None)
        /\ ("description" \in a.given) <=> (a.description # None)
        /\ ("assignee" \in a.given) <=> (a.assignee # None)
        /\ ("labels" \notin a.given) => (a.labels = <<>>)
        /\ ("status" \notin a.given) => (a.status = <<>>)}

\* the outcome of read and update: the service afterwards, the calls issued, the
\* error raised if any, the Entity returned
EntityOutcome(svc, calls, error, entity) ==
    [svc |-> svc, calls |-> calls, error |-> error, entity |-> entity]

(***************************************************************************)
(* GitHub backend: read and update.                                        *)
(***************************************************************************)
\* query GetIssue
GetIssue(number) == [name |-> "GetIssue", number |-> number]

\* mutation UpdateIssue / UpdateIssueState / UpdateIssueLabels: updateIssue with
\* the input fields of `input`
UpdateIssue(issue_id, input) ==
    [name |-> "updateIssue", id |-> issue_id, input |-> input]

\* query GetRepoLabels
GetRepoLabels == [name |-> "GetRepoLabels"]

\* mutation CreateLabel
CreateLabel(label_name) == [name |-> "createLabel", label_name |-> label_name]

\* the service after updateIssue: the input fields replace the stored ones
GitHubExecuteUpdateIssue(gh, call) ==
    LET number == NumberOf(call.id)
        issue == gh.issues[number]
        input == call.input
    IN  [gh EXCEPT !.issues[number] =
            [f \in DOMAIN issue |->
                CASE f = "labels" /\ "labelIds" \in DOMAIN input -> Distinct(input["labelIds"])
                  [] f # "labels" /\ f \in DOMAIN input -> input[f]
                  [] OTHER -> issue[f]]]

\* GitHubBackend._issue_to_entity
GitHub_issue_to_entity(number, issue) ==
    Entity(number, issue.title, issue.body,
           ParseLabelNames(<<>>, issue.labels, FALSE),
           issue.assignee, Lower(issue.state))

\* variant of GitHub_read: an issue that does not exist is read as an empty Entity
GitHub_read_EmptyEntity(gh, entity_id) ==
    IF entity_id \notin DOMAIN gh.issues
    THEN EntityOutcome(gh, <<GetIssue(entity_id)>>, NoError,
                       Entity(entity_id, "", "", <<>>, None, OPEN))
    ELSE EntityOutcome(gh, <<GetIssue(entity_id)>>, NoError,
                       GitHub_issue_to_entity(entity_id, gh.issues[entity_id]))

\* GitHubBackend.read
GitHub_read(gh, entity_id) ==
    IF entity_id \notin DOMAIN gh.issues
    THEN EntityOutcome(gh, <<GetIssue(entity_id)>>, ServiceError("TransportQueryError"), NoEntity)
    ELSE EntityOutcome(gh, <<GetIssue(entity_id)>>, NoError,
                       GitHub_issue_to_entity(entity_id, gh.issues[entity_id]))

\* params of the first mutation of update
GitHubUpdateParams(a) ==
    [f \in (IF "title" \in a.given /\ a.title # "" THEN {"title"} ELSE {})
           \cup (IF "description" \in a.given THEN {"body"} ELSE {}) |->
        IF f = "title" THEN a.title ELSE a.description]

\* "if status:" of update
GitHubStatusStep(acc, issue_id, a) ==
    IF "status" \in a.given /\ a.status # <<>>
    THEN LET state_value == IF a.status = OPEN THEN GH_OPEN ELSE GH_CLOSED
             call == UpdateIssue(issue_id, [f \in {"state"} |-> state_value])
         IN  [svc |-> GitHubExecuteUpdateIssue(acc.svc, call),
              calls |-> Append(acc.calls, call)]
    ELSE acc

\* the createLabel calls for labels_to_create
CreateLabels(labels_to_create) ==
    [i \in 1..Len(labels_to_create) |-> CreateLabel(labels_to_create[i])]

\* "if labels is not None:" of update
GitHubLabelsStep(acc, issue_id, a) ==
    IF "labels" \in a.given
    THEN LET desired_label_names == FormatLabels(a.labels)
             labels_to_create == SeqWithout(desired_label_names, acc.svc.repo_labels)
             created == [acc.svc EXCEPT !.repo_labels = @ \cup SeqRange(labels_to_create)]
             call == UpdateIssue(issue_id, [f \in {"labelIds"} |-> desired_label_names])
         IN  [svc |-> GitHubExecuteUpdateIssue(created, call),
              calls |-> acc.calls \o <<GetRepoLabels>> \o CreateLabels(labels_to_create)
                            \o <<call>>]
    ELSE acc

\* GitHubBackend.update; assignee is not read
GitHub_update(gh, entity_id, a) ==
    IF entity_id \notin DOMAIN gh.issues
    THEN EntityOutcome(gh, <<GetIssueId(entity_id)>>, ServiceError("TransportQueryError"), NoEntity)
    ELSE LET issue_id == NodeId(entity_id)
             mutation == UpdateIssue(issue_id, GitHubUpdateParams(a))
             first == [svc |-> GitHubExecuteUpdateIssue(gh, mutation),
                       calls |-> <<GetIssueId(entity_id), mutation>>]
             result == first.svc.issues[entity_id]
             last == GitHubLabelsStep(GitHubStatusStep(first, issue_id, a), issue_id, a)
         IN  EntityOutcome(last.svc, last.calls, NoError,
                           GitHub_issue_to_entity(entity_id, result))

(***************************************************************************)
(* Notion backend: read and update.                                        *)
(***************************************************************************)
\* the name Notion reports for the user with the id user_id
NotionUserName(user_id) == IF user_id = "u1" THEN "User One" ELSE user_id

\* NotionBackend._build_properties
Notion_build_properties(a) ==
    [k \in {"Name" : x \in {"title"} \cap a.given}
           \cup {"Description" : x \in {"description"} \cap a.given}
           \cup {"Status" : x \in {"status"} \cap a.given}
           \cup {"Labels" : x \in {"labels"} \cap a.given}
           \cup {"Assignee" : x \in {"assignee"} \cap a.given} |->
        CASE k = "Name" -> a.title
          [] k = "Description" -> a.description
          [] k = "Status" -> Title(a.status)
          [] k = "Labels" -> FormatLabels(a.labels)
          [] k = "Assignee" -> IF a.assignee # "" THEN <<a.assignee>> ELSE <<>>]

\* NotionBackend._page_to_entity, with _parse_properties
Notion_page_to_entity(page_id, page) ==
    LET people == [i \in 1..Len(page["Assignee"]) |-> NotionUserName(page["Assignee"][i])]
        status == IF page["Status"] # <<>> THEN page["Status"] ELSE OPEN
    IN  Entity(page_id, page["Name"], page["Description"],
               ParseLabelNames(<<>>, page["Labels"], TRUE),
               IF Len(people) > 0 THEN people[1] ELSE None,
               Lower(status))

\* NotionBackend.read
Notion_read(nt, entity_id) ==
    IF entity_id \notin DOMAIN nt.pages
    THEN EntityOutcome(nt, <<PagesRetrieve(entity_id)>>,
                       ServiceError("APIResponseError"), NoEntity)
    ELSE EntityOutcome(nt, <<PagesRetrieve(entity_id)>>, NoError,
                       Notion_page_to_entity(entity_id, nt.pages[entity_id]))

\* NotionBackend.update
Notion_update(nt, entity_id, a) ==
    LET update == PagesUpdate(entity_id, Notion_build_properties(a))
    IN  IF entity_id \notin DOMAIN nt.pages
        THEN EntityOutcome(nt, <<update>>, ServiceError("APIResponseError"), NoEntity)
        ELSE LET updated == NotionExecuteUpdate(nt, update)
                 entity == Notion_read(updated.svc, entity_id)
             IN  EntityOutcome(updated.svc, <<update>> \o entity.calls,
                               entity.error, entity.entity)

(***************************************************************************)
(* Beads backend: read and update.                                         *)
(***************************************************************************)
\* bd update <bead_id> with the flags of `flags`
BdUpdate(bead_id, flags) == [name |-> "update", bead_id |-> bead_id, flags |-> flags]

\* bd label remove <bead_id> <label>
LabelRemove(bead_id, label) ==
    [name |-> "label remove", bead_id |-> bead_id, label |-> label]

\* bd label add <bead_id> <label>
LabelAdd(bead_id, label) ==
    [name |-> "label add", bead_id |-> bead_id, label |-> label]

\* the store after a bd label or bd update command on an issue it holds
BeadsExecute(bd, call) ==
    LET n == call.bead_id[2]
        issue == bd.issues[n]
    IN  CASE call.name = "label remove" ->
                [bd EXCEPT !.issues[n].labels = SeqWithout(@, {call.label})]
          [] call.name = "label add" ->
                [bd EXCEPT !.issues[n].labels = Distinct(Append(@, call.label))]
          [] call.name = "update" ->
                [bd EXCEPT !.issues[n] =
                    [f \in DOMAIN issue |->
                        IF f \in DOMAIN call.flags THEN call.flags[f] ELSE issue[f]]]

\* a list of commands run in order
RECURSIVE BeadsExecuteAll(_, _)
BeadsExecuteAll(bd, calls) ==
    IF calls = <<>> THEN bd
    ELSE BeadsExecuteAll(BeadsExecute(bd, Head(calls)), Tail(calls))

\* BeadsBackend._bead_to_entity
Beads_bead_to_entity(bead_id, bead) ==
    Entity(bead_id, bead.title, bead.description,
           ParseLabelNames(<<>>, bead.labels, FALSE),
           bead.assignee, bead.status)

\* BeadsBackend.read
Beads_read(bd, entity_id) ==
    LET bead_id == EntityIdToBeadId(entity_id)
    IN  IF ~BeadsExists(bd, bead_id)
        THEN EntityOutcome(bd, <<Show(bead_id)>>,
                           ServiceError("CalledProcessError"), NoEntity)
        ELSE EntityOutcome(bd, <<Show(bead_id)>>, NoError,
                           Beads_bead_to_entity(bead_id, bd.issues[bead_id[2]]))

\* the flags update passes to bd update
BeadsUpdateFlags(a) ==
    [f \in {x \in {"title", "assignee"} \cap a.given : a[x] # ""}
           \cup ({"description"} \cap a.given)
           \cup {x \in {"status"} \cap a.given : a[x] # <<>>} |-> a[f]]

\* "if labels is not None:" of update, after the read: the label commands
BeadsLabelCommands(bead_id, current, a) ==
    [i \in 1..Len(current.labels) |->
        LabelRemove(bead_id, FormatLabel(current.labels[i][1], current.labels[i][2]))]
    \o [i \in 1..Len(a.labels) |->
        LabelAdd(bead_id, FormatLabel(a.labels[i][1], a.labels[i][2]))]

\* BeadsBackend.update
Beads_update(bd, entity_id, a) ==
    LET bead_id == EntityIdToBeadId(entity_id)
        current == Beads_read(bd, entity_id)
        update == BdUpdate(bead_id, BeadsUpdateFlags(a))
    IN  IF ~BeadsExists(bd, bead_id)
        THEN IF "labels" \in a.given
             THEN EntityOutcome(bd, current.calls, current.error, NoEntity)
             ELSE EntityOutcome(bd, <<update>>,
                                ServiceError("CalledProcessError"), NoEntity)
        ELSE LET labelCalls ==
                     IF "labels" \in a.given
                     THEN current.calls \o BeadsLabelCommands(bead_id, current.entity, a)
                     ELSE <<>>
                 commands == SelectSeq(labelCalls, LAMBDA c : c.name # "show")
                                \o <<update>>
                 after == BeadsExecuteAll(bd, commands)
                 entity == Beads_read(after, entity_id)
             IN  EntityOutcome(after, labelCalls \o <<update>> \o entity.calls,
                               entity.error, entity.entity)

(***************************************************************************)
(* read and update of the three backends, one call at a time.              *)
(***************************************************************************)
\* a read or update call and its outcome r
EntityOp(op, entity_id, a, r) ==
    [NoOp EXCEPT !.op = op, !.source_id = entity_id, !.args = a,
                 !.error = r.error, !.calls = r.calls, !.entity = r.entity]

\* delete(entity_ids) and its outcome r
DeleteOp(entity_ids, strict, r) ==
    [NoOp EXCEPT !.op = "delete", !.target_ids = entity_ids, !.recursive = strict,
                 !.error = r.error, !.calls = r.calls]

\* the arguments of update(entity_id, status="closed")
ArgsClosed ==
    [given |-> {"status"}, title |-> None, description |-> None, labels |-> <<>>,
     status |-> CLOSED, assignee |-> None]

\* variant of GitHub_delete: the update that closes also passes labels={}
RECURSIVE GitHub_delete_ClearsLabels(_, _, _)
GitHub_delete_ClearsLabels(acc, entity_ids, i) ==
    IF i > Len(entity_ids) \/ acc.error # NoError THEN acc
    ELSE LET r == GitHub_update(acc.svc, entity_ids[i],
                                [ArgsClosed EXCEPT !.given = {"status", "labels"}])
         IN  GitHub_delete_ClearsLabels(
                 EntityOutcome(r.svc, acc.calls \o r.calls, r.error, NoEntity),
                 entity_ids, i + 1)

\* GitHubBackend.delete: "for entity_id in entity_ids: self.update(entity_id,
\* status='closed')", from the i-th id on
RECURSIVE GitHub_delete(_, _, _)
GitHub_delete(acc, entity_ids, i) ==
    IF i > Len(entity_ids) \/ acc.error # NoError THEN acc
    ELSE LET r == GitHub_update(acc.svc, entity_ids[i], ArgsClosed)
         IN  GitHub_delete(
                 EntityOutcome(r.svc, acc.calls \o r.calls, r.error, NoEntity),
                 entity_ids, i + 1)

\* client.pages.update(page_id=entity_id, archived=True)
PagesArchive(page_id) == [name |-> "pages.update", page_id |-> page_id, archived |-> TRUE]

\* NotionBackend.delete, from the i-th id on; `strict`: the service refuses to
\* update a page that is archived already
RECURSIVE Notion_delete(_, _, _, _)
Notion_delete(acc, entity_ids, i, strict) ==
    IF i > Len(entity_ids) \/ acc.error # NoError THEN acc
    ELSE LET page_id == entity_ids[i]
             calls == Append(acc.calls, PagesArchive(page_id))
         IN  IF page_id \notin DOMAIN acc.svc.pages
                \/ (strict /\ acc.svc.pages[page_id]["archived"])
             THEN EntityOutcome(acc.svc, calls, ServiceError("APIResponseError"), NoEntity)
             ELSE Notion_delete(
                      EntityOutcome([acc.svc EXCEPT !.pages[page_id]["archived"] = TRUE],
                                    calls, NoError, NoEntity),
                      entity_ids, i + 1, strict)

\* entity 1 exists, entity 2 does not
InitEntities ==
    /\ backend \in Backends
    /\ github = PlainGitHub({1})
    /\ notion = PlainNotion({1})
    /\ beads = PlainBeads({1})
    /\ lastOp = NoOp
    /\ pc = IdleProcs
    /\ local = NoLocals
    /\ config = NoConfig

GitHubRead ==
    /\ backend = "github"
    /\ lastOp.op = "none"
    /\ \E entity_id \in Ids :
          lastOp' = EntityOp("read", entity_id, NoArgs, GitHub_read(github, entity_id))
    /\ UNCHANGED <<backend, github, notion, beads, pc, local, config>>

GitHubUpdate ==
    /\ backend = "github"
    /\ lastOp.op = "none"
    /\ \E entity_id \in Ids, a \in UpdateArgs :
          LET r == GitHub_update(github, entity_id, a)
          IN  /\ github' = r.svc
              /\ lastOp' = EntityOp("update", entity_id, a, r)
    /\ UNCHANGED <<backend, notion, beads, pc, local, config>>

NotionRead ==
    /\ backend = "notion"
    /\ lastOp.op = "none"
    /\ \E entity_id \in Ids :
          lastOp' = EntityOp("read", entity_id, NoArgs, Notion_read(notion, entity_id))
    /\ UNCHANGED <<backend, github, notion, beads, pc, local, config>>

NotionUpdate ==
    /\ backend = "notion"
    /\ lastOp.op = "none"
    /\ \E entity_id \in Ids, a \in UpdateArgs :
          LET r == Notion_update(notion, entity_id, a)
          IN  /\ notion' = r.svc
              /\ lastOp' = EntityOp("update", entity_id, a, r)
    /\ UNCHANGED <<backend, github, beads, pc, local, config>>

BeadsRead ==
    /\ backend = "beads"
    /\ lastOp.op = "none"
    /\ \E entity_id \in BeadsIdInputs :
          lastOp' = EntityOp("read", entity_id, NoArgs, Beads_read(beads, entity_id))
    /\ UNCHANGED <<backend, github, notion, beads, pc, local, config>>

BeadsUpdate ==
    /\ backend = "beads"
    /\ lastOp.op = "none"
    /\ \E entity_id \in BeadsIdInputs, a \in UpdateArgs :
          LET r == Beads_update(beads, entity_id, a)
          IN  /\ beads' = r.svc
              /\ lastOp' = EntityOp("update", entity_id, a, r)
    /\ UNCHANGED <<backend, github, notion, pc, local, config>>

GitHubDelete ==
    /\ backend = "github"
    /\ lastOp.op = "none"
    /\ \E entity_ids \in TargetLists :
          LET r == GitHub_delete(EntityOutcome(github, <<>>, NoError, NoEntity),
                                 entity_ids, 1)
          IN  /\ github' = r.svc
              /\ lastOp' = DeleteOp(entity_ids, FALSE, r)
    /\ UNCHANGED <<backend, notion, beads, pc, local, config>>

NotionDelete ==
    /\ backend = "notion"
    /\ lastOp.op = "none"
    /\ \E entity_ids \in TargetLists, strict \in BOOLEAN :
          LET r == Notion_delete(EntityOutcome(notion, <<>>, NoError, NoEntity),
                                 entity_ids, 1, strict)
          IN  /\ notion' = r.svc
              /\ lastOp' = DeleteOp(entity_ids, strict, r)
    /\ UNCHANGED <<backend, github, beads, pc, local, config>>

NextEntities ==
    \/ GitHubRead
    \/ GitHubUpdate
    \/ GitHubDelete
    \/ NotionRead
    \/ NotionUpdate
    \/ NotionDelete
    \/ BeadsRead
    \/ BeadsUpdate
    \/ Return

SpecEntities == InitEntities /\ [][NextEntities]_vars

(***************************************************************************)
(* Properties of read and update.                                          *)
(***************************************************************************)
\* read of the backend in use, on the service state svc
ReadOn(svc, entity_id) ==
    CASE backend = "github" -> GitHub_read(svc, entity_id)
      [] backend = "notion" -> Notion_read(svc, entity_id)
      [] backend = "beads" -> Beads_read(svc, entity_id)

\* update of the backend in use, on the service state svc
UpdateOn(svc, entity_id, a) ==
    CASE backend = "github" -> GitHub_update(svc, entity_id, a)
      [] backend = "notion" -> Notion_update(svc, entity_id, a)
      [] backend = "beads" -> Beads_update(svc, entity_id, a)

\* the names of the labels the service holds for an entity
StoredLabels(svc, entity_id) ==
    CASE backend = "github" -> SeqRange(svc.issues[entity_id].labels)
      [] backend = "notion" -> SeqRange(svc.pages[entity_id]["Labels"])
      [] backend = "beads" -> SeqRange(svc.issues[EntityIdToBeadId(entity_id)[2]].labels)

\* the ids under which the entity the backend holds can be passed
ExistingIds == IF backend = "beads" THEN {BeadId(1), BareId(1)} ELSE {1}

\* update(id): every argument None
ArgsNone ==
    [given |-> {}, title |-> None, description |-> None, labels |-> <<>>,
     status |-> <<>>, assignee |-> None]

\* update(id, labels={})
ArgsNoLabels == [ArgsNone EXCEPT !.given = {"labels"}]

\* the last call is an update that returned
Updated == lastOp.op = "update" /\ lastOp.error = NoError

\* C4: on every backend, update with labels=None leaves the stored labels as they
\* were, update with labels={} leaves the entity without labels, and on an entity
\* that has a label the two calls leave different stored labels.
C4_LabelsNoneKeepsEmptyClears ==
    [][/\ \A entity_id \in ExistingIds :
             StoredLabels(Service, entity_id) # {}
                 => StoredLabels(UpdateOn(Service, entity_id, ArgsNone).svc, entity_id)
                        # StoredLabels(UpdateOn(Service, entity_id, ArgsNoLabels).svc,
                                       entity_id)
       /\ Updated'
             => LET entity_id == lastOp'.source_id
                    a == lastOp'.args
                IN  /\ "labels" \notin a.given
                          => StoredLabels(Service', entity_id)
                                 = StoredLabels(Service, entity_id)
                    /\ ("labels" \in a.given /\ a.labels = <<>>)
                          => StoredLabels(Service', entity_id) = {}]_vars

\* C5: on every backend, the Entity update returns has the title, description,
\* status and labels of the Entity a read issued right after the update returns.
C5_UpdateReturnsFreshRead ==
    Updated =>
        LET fresh == ReadOn(Service, lastOp.source_id).entity
        IN  /\ lastOp.entity.title = fresh.title
            /\ lastOp.entity.description = fresh.description
            /\ lastOp.entity.status = fresh.status
            /\ DictItems(lastOp.entity.labels) = DictItems(fresh.labels)

\* C6: on every backend, update leaves title, description, status and assignee as
\* they were when the argument is None, and stores the argument when it is neither
\* None nor empty.
C6_PartialUpdate ==
    [][Updated'
          => LET a == lastOp'.args
                 before == ReadOn(Service, lastOp'.source_id).entity
                 after == ReadOn(Service', lastOp'.source_id).entity
             IN  /\ \A f \in {"title", "description", "assignee"} :
                       /\ f \notin a.given => after[f] = before[f]
                       /\ (f \in a.given /\ a[f] # "") => after[f] = a[f]
                 /\ "status" \notin a.given => after.status = before.status
                 /\ ("status" \in a.given /\ a.status # <<>>)
                       => after.status = a.status]_vars

\* the label mapping {"a": "1", "b": ""}
LABELS_A1_B == << <<KEY_A, VALUE_1>>, <<KEY_B, <<>>>> >>

\* C16: on every backend, the labels {"a": "1", "b": ""} passed to update are read
\* back as exactly {"a": "1", "b": ""}: the names "a:1" and "b" they are encoded
\* to decode to the same mapping.
C16_LabelRoundTrip ==
    (Updated /\ "labels" \in lastOp.args.given /\ lastOp.args.labels = LABELS_A1_B)
        => /\ DictItems(ReadOn(Service, lastOp.source_id).entity.labels)
                  = DictItems(LABELS_A1_B)
           /\ \A strip \in BOOLEAN :
                  ParseLabelNames(<<>>, FormatLabels(LABELS_A1_B), strip) = LABELS_A1_B

\* C16 witness: update with {"a": "1", "b": ""} returned and the service holds
\* the names "a:1" and "b".
C16_Witness ==
    /\ Updated
    /\ "labels" \in lastOp.args.given
    /\ lastOp.args.labels = LABELS_A1_B
    /\ StoredLabels(Service, lastOp.source_id) = {<<"a", ":", "1">>, <<"b">>}

(***************************************************************************)
(* Config: a YAML file per scope.  A dict is the sequence of its items, as  *)
(* for labels.  A file is what it holds: nothing ("absent"), no character   *)
(* ("empty"), the document "{}" ("flow") or one "key: value" line per item  *)
(* ("block").                                                              *)
(***************************************************************************)
\* key in d
DictHas(d, key) == \E i \in 1..Len(d) : d[i][1] = key

\* d[key]
DictGet(d, key) == d[CHOOSE i \in 1..Len(d) : d[i][1] = key][2]

\* del d[key]
DictDel(d, key) == SelectSeq(d, LAMBDA item : item[1] # key)

\* d.update(other)
RECURSIVE DictUpdate(_, _)
DictUpdate(d, other) ==
    IF other = <<>> THEN d
    ELSE DictUpdate(DictSet(d, Head(other)[1], Head(other)[2]), Tail(other))

AbsentFile == [kind |-> "absent", lines |-> <<>>]

EmptyFile == [kind |-> "empty", lines |-> <<>>]

\* yaml.safe_dump(d, default_flow_style=False, sort_keys=False)
YamlDump(d) ==
    IF d = <<>> THEN [kind |-> "flow", lines |-> <<>>]
    ELSE [kind |-> "block", lines |-> d]

\* yaml.safe_load(f) or {}
YamlLoad(file) ==
    IF file.kind = "block" THEN DictUpdate(<<>>, file.lines) ELSE <<>>

\* Config._load
Config_load(config_file) ==
    IF config_file.kind = "absent" THEN <<>> ELSE YamlLoad(config_file)

\* Config.__init__; a global-scoped instance has the global file as its file
Config_init(use_global, config_file, global_config_file) ==
    [is_global |-> use_global,
     _config |-> Config_load(IF use_global THEN global_config_file ELSE config_file),
     _global_config |->
         IF ~use_global /\ global_config_file.kind # "absent"
         THEN YamlLoad(global_config_file) ELSE <<>>,
     config_file |-> IF use_global THEN global_config_file ELSE config_file,
     global_config_file |-> global_config_file]

\* the ways open() and yaml.safe_dump() of _save can end
SaveOutcomes == {"saved", "open failed", "dump failed"}

\* Config._save: the file afterwards; "open failed" leaves it, "dump failed"
\* leaves it truncated
Config_save(c, outcome) ==
    LET written == CASE outcome = "saved" -> YamlDump(c._config)
                     [] outcome = "open failed" -> c.config_file
                     [] outcome = "dump failed" -> EmptyFile
    IN  [c EXCEPT !.config_file = written,
                  !.global_config_file = IF c.is_global THEN written ELSE @]

\* the ValueError _save raises
SaveError(outcome) ==
    IF outcome = "saved" THEN NoError ELSE ServiceError("ValueError")

\* open(self.config_file, "w")
OpenForWrite == [name |-> "open", mode |-> "w"]

\* Config.set
Config_set(c, key, value, outcome) ==
    [config |-> Config_save([c EXCEPT !._config = DictSet(@, key, value)], outcome),
     calls |-> <<OpenForWrite>>, error |-> SaveError(outcome), result |-> <<>>]

\* Config.unset
Config_unset(c, key, outcome) ==
    IF DictHas(c._config, key)
    THEN [config |-> Config_save([c EXCEPT !._config = DictDel(@, key)], outcome),
          calls |-> <<OpenForWrite>>, error |-> SaveError(outcome), result |-> <<>>]
    ELSE [config |-> c, calls |-> <<>>, error |-> NoError, result |-> <<>>]

\* variant of Config_get: no fallback to the global mapping
Config_get_LocalOnly(c, key) ==
    [config |-> c, calls |-> <<>>, error |-> NoError,
     result |-> IF DictHas(c._config, key) THEN DictGet(c._config, key) ELSE None]

\* Config.get, default None
Config_get(c, key) ==
    [config |-> c, calls |-> <<>>, error |-> NoError,
     result |-> IF DictHas(c._config, key) THEN DictGet(c._config, key)
                ELSE IF ~c.is_global /\ DictHas(c._global_config, key)
                THEN DictGet(c._global_config, key)
                ELSE None]

\* variant of Config_list: the global values win over the local ones
Config_list_GlobalWins(c) ==
    [config |-> c, calls |-> <<>>, error |-> NoError,
     result |-> IF c.is_global THEN c._config
                ELSE DictUpdate(c._config, c._global_config)]

\* Config.list
Config_list(c) ==
    [config |-> c, calls |-> <<>>, error |-> NoError,
     result |-> IF c.is_global THEN c._config
                ELSE DictUpdate(c._global_config, c._config)]

(***************************************************************************)
(* One Config instance at work: set, unset, get and list on the instance    *)
(* built from the files found at start-up.                                  *)
(***************************************************************************)
GLOBAL_XY == << <<"x", "1">>, <<"y", "2">> >>

LOCAL_YZ == << <<"y", "3">>, <<"z", "4">> >>

ConfigKeys == {"x", "y", "z"}

ConfigValues == {"3", "5"}

InitialFiles == {AbsentFile, YamlDump(<<>>), YamlDump(GLOBAL_XY), YamlDump(LOCAL_YZ)}

\* a Config call and its outcome r
ConfigOp(op, key, value, r) ==
    [NoOp EXCEPT !.op = op, !.key = key, !.value = value, !.error = r.error,
                 !.calls = r.calls, !.result = r.result]

InitConfig ==
    /\ backend = "github"
    /\ github = PlainGitHub(Ids)
    /\ notion = PlainNotion(Ids)
    /\ beads = PlainBeads(Ids)
    /\ lastOp = NoOp
    /\ pc = IdleProcs
    /\ local = NoLocals
    /\ \E use_global \in BOOLEAN, config_file \in InitialFiles,
          global_config_file \in InitialFiles :
          config = Config_init(use_global, config_file, global_config_file)

ConfigSet ==
    /\ lastOp.op = "none"
    /\ \E key \in ConfigKeys, value \in ConfigValues, outcome \in SaveOutcomes :
          LET r == Config_set(config, key, value, outcome)
          IN  /\ config' = r.config
              /\ lastOp' = ConfigOp("set", key, value, r)
    /\ UNCHANGED <<backend, github, notion, beads, pc, local>>

ConfigUnset ==
    /\ lastOp.op = "none"
    /\ \E key \in ConfigKeys, outcome \in SaveOutcomes :
          LET r == Config_unset(config, key, outcome)
          IN  /\ config' = r.config
              /\ lastOp' = ConfigOp("unset", key, "", r)
    /\ UNCHANGED <<backend, github, notion, beads, pc, local>>

ConfigGet ==
    /\ lastOp.op = "none"
    /\ \E key \in ConfigKeys :
          lastOp' = ConfigOp("get", key, "", Config_get(config, key))
    /\ UNCHANGED <<backend, github, notion, beads, pc, local, config>>

ConfigList ==
    /\ lastOp.op = "none"
    /\ lastOp' = ConfigOp("list", "", "", Config_list(config))
    /\ UNCHANGED <<backend, github, notion, beads, pc, local, config>>

NextConfig ==
    \/ ConfigSet
    \/ ConfigUnset
    \/ ConfigGet
    \/ ConfigList
    \/ Return

SpecConfig == InitConfig /\ [][NextConfig]_vars

\* a dict as the mapping it denotes
Mapping(d) == [key \in {d[i][1] : i \in 1..Len(d)} |-> DictGet(d, key)]

\* C17: list() of a local-scoped store is the global mapping overlaid by the
\* local one (every key of either, the local value where both have the key);
\* list() of a global-scoped store is its own mapping
C17_ListMerged ==
    lastOp.op = "list"
        => LET G == Mapping(config._global_config)
               L == Mapping(config._config)
           IN  Mapping(lastOp.result) =
                   IF config.is_global THEN L
                   ELSE [key \in DOMAIN G \cup DOMAIN L |->
                            IF key \in DOMAIN L THEN L[key] ELSE G[key]]

\* global {x: 1, y: 2} and local {y: 3, z: 4} list as {x: 1, y: 3, z: 4}
C17_Witness ==
    /\ lastOp.op = "list"
    /\ ~config.is_global
    /\ config._global_config = GLOBAL_XY
    /\ config._config = LOCAL_YZ
    /\ lastOp.result = << <<"x", "1">>, <<"y", "3">>, <<"z", "4">> >>

\* C18: after a set or an unset that returns, the file holds the in-memory
\* mapping (no file: the empty mapping)
C18_FileIsMemory ==
    (lastOp.op \in {"set", "unset"} /\ lastOp.error = NoError)
        => Mapping(Config_load(config.config_file)) = Mapping(config._config)

(***************************************************************************)
(* get_link_tree and find_cycles.  The result of get_link_tree is           *)
(*   [entity |-> node, links |-> [children, blocking, blocked_by, parent]]  *)
(* A value of the links section carries its Python type: a list is          *)
(* PyList(items); what json.loads hands over may also be None, a dict or a  *)
(* str.                                                                    *)
(***************************************************************************)
PyList(items) == [type |-> "list", items |-> items]

PyNone == [type |-> "NoneType", items |-> <<>>]

PyDict(item) == [type |-> "dict", items |-> <<item>>]

PyStr == [type |-> "str", items |-> <<>>]

\* bool(value): None, [] are falsy; a non-empty list, dict or str is truthy
Truthy(value) ==
    CASE value.type = "NoneType" -> FALSE
      [] value.type = "list" -> Len(value.items) > 0
      [] OTHER -> TRUE

\* {"id": ..., "title": ..., "state": ...}
TreeNode(id, title, state) == [id |-> id, title |-> title, state |-> state]

TreeKeys == {"children", "blocking", "blocked_by", "parent"}

\* {"children": [], "blocking": [], "blocked_by": [], "parent": []}
EmptyTreeLinks == [key \in TreeKeys |-> PyList(<<>>)]

Tree(entity, links) == [entity |-> entity, links |-> links]

\* tree["links"][key].append(node)
TreeAppend(tree, key, node) ==
    [tree EXCEPT !.links[key] = PyList(Append(@.items, node))]

\* what a get_link_tree or find_cycles call leaves behind
TreeOutcome(svc, calls, error, result) ==
    [svc |-> svc, calls |-> calls, error |-> error, result |-> result]

\* the issue_data of the GetIssueLinks query of get_link_tree
GitHubIssueData(gh, number) ==
    LET node(n) == TreeNode(n, gh.issues[n].title, gh.issues[n].state)
        blockedBy == SortedSeq({p[2] : p \in {q \in gh.blockedBy : q[1] = number}})
        blocking == SortedSeq({p[1] : p \in {q \in gh.blockedBy : q[2] = number}})
        subIssues == SortedSeq({n \in DOMAIN gh.parent : gh.parent[n] = number})
    IN  [number |-> number,
         title |-> gh.issues[number].title,
         state |-> gh.issues[number].state,
         blockedBy |-> [i \in 1..Len(blockedBy) |-> node(blockedBy[i])],
         blocking |-> [i \in 1..Len(blocking) |-> node(blocking[i])],
         subIssues |-> [i \in 1..Len(subIssues) |-> node(subIssues[i])],
         parent |-> IF gh.parent[number] = 0 THEN <<>>
                    ELSE <<node(gh.parent[number])>>]

\* the dict get_link_tree builds for one node of issue_data
GitHubTreeNode(node) == TreeNode(node.id, node.title, Lower(node.state))

\* variant of GitHubTreeLinks: blocking and blocked_by are filled from each
\* other's nodes
GitHubTreeLinks_Swapped(issue_data) ==
    [key \in TreeKeys |->
        LET nodes == CASE key = "children" -> issue_data.subIssues
                       [] key = "blocking" -> issue_data.blockedBy
                       [] key = "blocked_by" -> issue_data.blocking
                       [] key = "parent" -> issue_data.parent
        IN  PyList([i \in 1..Len(nodes) |-> GitHubTreeNode(nodes[i])])]

\* the links section get_link_tree fills from issue_data
GitHubTreeLinks(issue_data) ==
    [key \in TreeKeys |->
        LET nodes == CASE key = "children" -> issue_data.subIssues
                       [] key = "blocking" -> issue_data.blocking
                       [] key = "blocked_by" -> issue_data.blockedBy
                       [] key = "parent" -> issue_data.parent
        IN  PyList([i \in 1..Len(nodes) |-> GitHubTreeNode(nodes[i])])]

\* GitHubBackend.get_link_tree
GitHub_get_link_tree(gh, entity_id) ==
    IF entity_id \notin DOMAIN gh.issues
    THEN TreeOutcome(gh, <<GetIssueLinks(entity_id)>>,
                     ServiceError("TransportQueryError"), <<>>)
    ELSE LET issue_data == GitHubIssueData(gh, entity_id)
         IN  TreeOutcome(gh, <<GetIssueLinks(entity_id)>>, NoError,
                         Tree(TreeNode(issue_data.number, issue_data.title,
                                       Lower(issue_data.state)),
                              GitHubTreeLinks(issue_data)))

\* GitHubBackend.find_cycles
GitHub_find_cycles(gh) == TreeOutcome(gh, <<>>, NoError, <<>>)

\* the key of the links section for a link type
NotionTreeKey(link_type) ==
    CASE link_type = BLOCKED_BY -> "blocked_by"
      [] link_type = BLOCKING -> "blocking"
      [] link_type = PARENT -> "parent"
      [] link_type = CHILDREN -> "children"

\* whether the k-th pages.retrieve of a call fails: the page is not there, or
\* the request is one of those the service does not answer (`failed`)
RetrieveFails(nt, page_id, k, failed) ==
    k \in failed \/ page_id \notin DOMAIN nt.pages

\* variant of NotionTreeLoop: no try/except around the read of a linked entity
RECURSIVE NotionTreeLoop_NoTry(_, _, _, _, _)
NotionTreeLoop_NoTry(nt, acc, links, i, failed) ==
    IF i > Len(links) \/ acc.error # NoError THEN acc
    ELSE LET link == links[i]
             calls == Append(acc.calls, PagesRetrieve(link.target_id))
         IN  IF RetrieveFails(nt, link.target_id, Len(calls), failed)
             THEN TreeOutcome(nt, calls, ServiceError("APIResponseError"), <<>>)
             ELSE LET linked_entity == Notion_read(nt, link.target_id).entity
                      link_info == TreeNode(linked_entity.id, linked_entity.title,
                                            linked_entity.status)
                  IN  NotionTreeLoop_NoTry(nt,
                          TreeOutcome(nt, calls, NoError,
                              TreeAppend(acc.result, NotionTreeKey(link.link_type),
                                         link_info)),
                          links, i + 1, failed)

\* "for link in links" of get_link_tree: a linked entity whose read fails is
\* logged and left out
RECURSIVE NotionTreeLoop(_, _, _, _, _)
NotionTreeLoop(nt, acc, links, i, failed) ==
    IF i > Len(links) THEN acc
    ELSE LET link == links[i]
             calls == Append(acc.calls, PagesRetrieve(link.target_id))
         IN  IF RetrieveFails(nt, link.target_id, Len(calls), failed)
             THEN NotionTreeLoop(nt, TreeOutcome(nt, calls, NoError, acc.result),
                                 links, i + 1, failed)
             ELSE LET linked_entity == Notion_read(nt, link.target_id).entity
                      link_info == TreeNode(linked_entity.id, linked_entity.title,
                                            linked_entity.status)
                  IN  NotionTreeLoop(nt,
                          TreeOutcome(nt, calls, NoError,
                              TreeAppend(acc.result, NotionTreeKey(link.link_type),
                                         link_info)),
                          links, i + 1, failed)

\* NotionBackend.get_link_tree; `failed` are the positions, among the
\* pages.retrieve requests of the call, of those that fail
Notion_get_link_tree(nt, entity_id, failed) ==
    LET retrieve == PagesRetrieve(entity_id)
    IN  IF RetrieveFails(nt, entity_id, 1, failed)
        THEN TreeOutcome(nt, <<retrieve>>, ServiceError("APIResponseError"), <<>>)
        ELSE IF RetrieveFails(nt, entity_id, 2, failed)
        THEN TreeOutcome(nt, <<retrieve, retrieve>>,
                         ServiceError("APIResponseError"), <<>>)
        ELSE LET entity == Notion_read(nt, entity_id).entity
                 links == Notion_list_links(nt, entity_id, NoLinkType).links
             IN  NotionTreeLoop(nt,
                     TreeOutcome(nt, <<retrieve, retrieve>>, NoError,
                         Tree(TreeNode(entity.id, entity.title, entity.status),
                              EmptyTreeLinks)),
                     links, 1, failed)

\* variant of Notion_find_cycles: two pages that block each other are reported
Notion_find_cycles_Searches(nt) ==
    LET cycles == {c \in (DOMAIN nt.pages) \X (DOMAIN nt.pages) :
                      /\ c[2] \in SeqRange(nt.pages[c[1]]["Blocked By"])
                      /\ c[1] \in SeqRange(nt.pages[c[2]]["Blocked By"])}
    IN  TreeOutcome(nt, <<>>, NoError,
                    IF cycles = {} THEN <<>> ELSE <<CHOOSE c \in cycles : TRUE>>)

\* NotionBackend.find_cycles
Notion_find_cycles(nt) == TreeOutcome(nt, <<>>, NoError, <<>>)

\* bd dep tree <id> --json
DepTree(bead_id) == [name |-> "dep tree", id |-> bead_id]

\* the values json.loads may give a key of the bd dep tree output
JsonValues(nodes) ==
    {PyNone, PyStr, PyList(<<>>)}
        \cup {PyList(<<node>>) : node \in nodes} \cup {PyDict(node) : node \in nodes}

\* what _run_bd_command returns for bd dep tree: None when bd prints nothing,
\* else the parsed JSON, a list or a dict with any of the four keys
BdTreeResults(nodes) ==
    {[type |-> "NoneType", fields |-> <<>>], [type |-> "list", fields |-> <<>>]}
        \cup {[type |-> "dict", fields |-> fields] :
                 fields \in UNION {[keys -> JsonValues(nodes)] : keys \in SUBSET TreeKeys}}

\* result.get(key, [])
ResultGet(result, key) ==
    IF key \in DOMAIN result.fields THEN result.fields[key] ELSE PyList(<<>>)

\* the links section get_link_tree takes from the bd dep tree output
BeadsTreeLinks(result) ==
    IF result.type # "dict" THEN EmptyTreeLinks
    ELSE LET parent == IF "parent" \in DOMAIN result.fields
                       THEN result.fields["parent"] ELSE PyNone
         IN  [key \in TreeKeys |->
                 IF key # "parent" THEN ResultGet(result, key)
                 ELSE IF ~Truthy(parent) THEN PyList(<<>>)
                 ELSE IF parent.type = "dict" THEN PyList(<<parent>>)
                 ELSE parent]

\* BeadsBackend.get_link_tree; `result` is the output of bd dep tree
Beads_get_link_tree(bd, entity_id, result) ==
    LET bead_id == EntityIdToBeadId(entity_id)
        read == Beads_read(bd, entity_id)
    IN  IF read.error # NoError
        THEN TreeOutcome(bd, read.calls, read.error, <<>>)
        ELSE TreeOutcome(bd, Append(read.calls, DepTree(bead_id)), NoError,
                 Tree(TreeNode(read.entity.id, read.entity.title, read.entity.status),
                      BeadsTreeLinks(result)))

(***************************************************************************)
(* Link trees: three entities, links added among them, get_link_tree and    *)
(* find_cycles on the graph built so far.                                   *)
(***************************************************************************)
\* most links in a graph get_link_tree is called on
MaxTreeLinks == 2

TreeIds == {1, 2, 3}

\* ids of no entity
MissingIds == {4}

TreeTargetLists == UNION {[1..n -> TreeIds \cup MissingIds] : n \in 1..MaxTargets}

\* the positions of the pages.retrieve requests of one get_link_tree call
RetrievePositions == 1..(2 + MaxTreeLinks)

\* the node bd dep tree reports in the model
BdTreeNodes == {TreeNode(BeadId(2), "t1", OPEN)}

\* a get_link_tree or find_cycles call and its outcome r
TreeOp(op, entity_id, failed, r) ==
    [NoOp EXCEPT !.op = op, !.source_id = entity_id, !.failed = failed,
                 !.error = r.error, !.calls = r.calls, !.result = r.result]

InitTrees ==
    /\ backend \in Backends
    /\ github = PlainGitHub(TreeIds)
    /\ notion = PlainNotion(TreeIds)
    /\ beads = PlainBeads(Ids)
    /\ lastOp = NoOp
    /\ pc = IdleProcs
    /\ local = NoLocals
    /\ config = NoConfig

GitHubAddTreeLink ==
    /\ backend = "github"
    /\ lastOp.op = "none"
    /\ \E source_id \in TreeIds, target_ids \in TreeTargetLists,
          link_type \in CanonicalLinkTypes :
          LET r == GitHub_add_link(github, source_id, target_ids, link_type)
          IN  /\ GitHubLinkCount(r.svc) <= MaxTreeLinks
              /\ github' = r.svc
              /\ lastOp' = LinkOp("add_link", source_id, target_ids, link_type, FALSE, r)
    /\ UNCHANGED <<backend, notion, beads, pc, local, config>>

NotionAddTreeLink ==
    /\ backend = "notion"
    /\ lastOp.op = "none"
    /\ \E source_id \in TreeIds, target_ids \in TreeTargetLists,
          link_type \in CanonicalLinkTypes :
          LET r == Notion_add_link(notion, source_id, target_ids, link_type)
          IN  /\ NotionLinkCount(r.svc) <= MaxTreeLinks
              /\ notion' = r.svc
              /\ lastOp' = LinkOp("add_link", source_id, target_ids, link_type, FALSE, r)
    /\ UNCHANGED <<backend, github, beads, pc, local, config>>

GitHubGetLinkTree ==
    /\ backend = "github"
    /\ lastOp.op = "none"
    /\ \E entity_id \in TreeIds \cup MissingIds :
          lastOp' = TreeOp("get_link_tree", entity_id, {},
                           GitHub_get_link_tree(github, entity_id))
    /\ UNCHANGED <<backend, github, notion, beads, pc, local, config>>

NotionGetLinkTree ==
    /\ backend = "notion"
    /\ lastOp.op = "none"
    /\ \E entity_id \in TreeIds \cup MissingIds, failed \in SUBSET RetrievePositions :
          lastOp' = TreeOp("get_link_tree", entity_id, failed,
                           Notion_get_link_tree(notion, entity_id, failed))
    /\ UNCHANGED <<backend, github, notion, beads, pc, local, config>>

BeadsGetLinkTree ==
    /\ backend = "beads"
    /\ lastOp.op = "none"
    /\ \E entity_id \in BeadsIdInputs, result \in BdTreeResults(BdTreeNodes) :
          lastOp' = TreeOp("get_link_tree", entity_id, {},
                           Beads_get_link_tree(beads, entity_id, result))
    /\ UNCHANGED <<backend, github, notion, beads, pc, local, config>>

GitHubFindCycles ==
    /\ backend = "github"
    /\ lastOp.op = "none"
    /\ lastOp' = TreeOp("find_cycles", 0, {}, GitHub_find_cycles(github))
    /\ UNCHANGED <<backend, github, notion, beads, pc, local, config>>

NotionFindCycles ==
    /\ backend = "notion"
    /\ lastOp.op = "none"
    /\ lastOp' = TreeOp("find_cycles", 0, {}, Notion_find_cycles(notion))
    /\ UNCHANGED <<backend, github, notion, beads, pc, local, config>>

NextTrees ==
    \/ GitHubAddTreeLink
    \/ NotionAddTreeLink
    \/ GitHubGetLinkTree
    \/ NotionGetLinkTree
    \/ BeadsGetLinkTree
    \/ GitHubFindCycles
    \/ NotionFindCycles
    \/ Return

SpecTrees == InitTrees /\ [][NextTrees]_vars

\* C19: find_cycles on GitHub and on Notion returns [] without a call to the
\* service, whatever the link graph
C19_FindCyclesEmpty ==
    (backend \in {"github", "notion"} /\ lastOp.op = "find_cycles")
        => /\ lastOp.error = NoError
           /\ lastOp.result = <<>>
           /\ lastOp.calls = <<>>

\* find_cycles returned on a Notion graph where 1 and 2 block each other
C19_Witness ==
    /\ backend = "notion"
    /\ lastOp.op = "find_cycles"
    /\ notion.pages[1]["Blocked By"] = <<2>>
    /\ notion.pages[2]["Blocked By"] = <<1>>

\* the ids listed under a key of the links section
TreeIdsUnder(tree, key) ==
    [i \in 1..Len(tree.links[key].items) |-> tree.links[key].items[i].id]

\* the target ids of the links of list_links(X) that belong under `key` and
\* whose read, the (i + 2)-th request of the call, is answered
ReadableTargets(links, key, failed) ==
    LET kept == SelectSeq([i \in 1..Len(links) |-> i],
                          LAMBDA i : /\ NotionTreeKey(links[i].link_type) = key
                                     /\ (i + 2) \notin failed)
    IN  [j \in 1..Len(kept) |-> links[kept[j]].target_id]

\* C20: Notion get_link_tree raises when the read of X or of its link list
\* fails; otherwise it returns a tree that lists, under the key of its link
\* type, every linked entity whose read succeeded and no other
C20_BestEffortPerLink ==
    (backend = "notion" /\ lastOp.op = "get_link_tree")
        => IF lastOp.source_id \notin DOMAIN notion.pages
              \/ lastOp.failed \cap {1, 2} # {}
           THEN lastOp.error # NoError
           ELSE /\ lastOp.error = NoError
                /\ \A key \in TreeKeys :
                       /\ lastOp.result.links[key].type = "list"
                       /\ TreeIdsUnder(lastOp.result, key) =
                              ReadableTargets(
                                  Notion_list_links(notion, lastOp.source_id,
                                                    NoLinkType).links,
                                  key, lastOp.failed)

\* page 1 is blocked by 2 and blocks 3; the read of 2 failed, 3 is listed
C20_Witness ==
    /\ backend = "notion"
    /\ lastOp.op = "get_link_tree"
    /\ lastOp.source_id = 1
    /\ lastOp.failed = {3}
    /\ notion.pages[1]["Blocked By"] = <<2>>
    /\ notion.pages[1]["Blocking"] = <<3>>
    /\ lastOp.error = NoError
    /\ TreeIdsUnder(lastOp.result, "blocked_by") = <<>>
    /\ TreeIdsUnder(lastOp.result, "blocking") = <<3>>

\* the link type whose links a key of the links section holds
TreeKeyType(key) ==
    CASE key = "children" -> CHILDREN
      [] key = "blocking" -> BLOCKING
      [] key = "blocked_by" -> BLOCKED_BY
      [] key = "parent" -> PARENT

\* the target ids of links, with their number of occurrences
TargetBag(links) ==
    [t \in {links[i].target_id : i \in 1..Len(links)} |->
        Cardinality({i \in 1..Len(links) : links[i].target_id = t})]

\* the ids of a sequence, with their number of occurrences
IdBag(ids) ==
    [t \in SeqRange(ids) |-> Cardinality({i \in 1..Len(ids) : ids[i] = t})]

\* C12: on GitHub and Notion, when every fetch succeeds, the ids under each key
\* of get_link_tree(X) are the target ids of list_links(X, type of the key);
\* every id listed is a direct neighbour of X; on GitHub parent has at most
\* one entry
C12_TreeAgreesWithListLinks ==
    (backend \in {"github", "notion"} /\ lastOp.op = "get_link_tree"
     /\ lastOp.error = NoError /\ lastOp.failed = {})
        => /\ \A key \in TreeKeys :
                  IdBag(TreeIdsUnder(lastOp.result, key)) =
                      TargetBag(ListLinksOn(Service, lastOp.source_id,
                                            TreeKeyType(key)).links)
           /\ \A key \in TreeKeys :
                  SeqRange(TreeIdsUnder(lastOp.result, key)) \subseteq
                      {l.target_id :
                          l \in SeqRange(ListLinksOn(Service, lastOp.source_id,
                                                     NoLinkType).links)}
           /\ backend = "github" => Len(lastOp.result.links["parent"].items) <= 1

\* issue 1 is blocked by 2 and 2 is blocked by 3: the tree of 1 lists 2 only
C12_Witness ==
    /\ backend = "github"
    /\ lastOp.op = "get_link_tree"
    /\ lastOp.error = NoError
    /\ lastOp.source_id = 1
    /\ github.blockedBy = {<<1, 2>>, <<2, 3>>}
    /\ TreeIdsUnder(lastOp.result, "blocked_by") = <<2>>
    /\ \A key \in TreeKeys : 3 \notin SeqRange(TreeIdsUnder(lastOp.result, key))

\* C11: the links section of a tree get_link_tree returned has the four keys
\* children, blocking, blocked_by and parent, each holding a list
C11_FourLists ==
    (lastOp.op = "get_link_tree" /\ lastOp.error = NoError)
        => /\ DOMAIN lastOp.result.links = TreeKeys
           /\ \A key \in TreeKeys : lastOp.result.links[key].type = "list"

\* add_link of the backend in use, on the service state svc
AddLinkOn(svc, source_id, target_ids, link_type) ==
    CASE backend = "github" -> GitHub_add_link(svc, source_id, target_ids, link_type)
      [] backend = "notion" -> Notion_add_link(svc, source_id, target_ids, link_type)
      [] backend = "beads" -> Beads_add_link(svc, source_id, target_ids, link_type)

\* the call that was made is an add_link that a call to the service failed
AddLinkFailed(op) ==
    /\ op.op = "add_link"
    /\ op.error # NoError
    /\ op.error.kind # "Unsupported link type"

\* C13: when the service refuses a call of add_link(source, [t1..tn], type),
\* there is a target tk such that the links to t1..t(k-1) are in place as an
\* add_link to them alone leaves them, the link to tk alone is refused there,
\* and the calls issued are those of add_link(source, [t1..tk], type)
C13_PerTargetInOrder ==
    [][AddLinkFailed(lastOp')
       => \E k \in 1..Len(lastOp'.target_ids) :
             LET before == AddLinkOn(Service, lastOp'.source_id,
                                     SubSeq(lastOp'.target_ids, 1, k - 1),
                                     lastOp'.link_type)
                 upTo == AddLinkOn(Service, lastOp'.source_id,
                                   SubSeq(lastOp'.target_ids, 1, k),
                                   lastOp'.link_type)
             IN  /\ before.error = NoError
                 /\ Service' = before.svc
                 /\ AddLinkOn(before.svc, lastOp'.source_id,
                              <<lastOp'.target_ids[k]>>,
                              lastOp'.link_type).error # NoError
                 /\ lastOp'.calls = upTo.calls]_vars

\* C30: on a local-scoped Config, set and unset leave the global mapping and
\* the global file as they were; unset of a key the local mapping does not have
\* changes nothing and opens no file; get returns the local value, else the
\* global value, else the default
C30_LocalLeavesGlobal ==
    [][~config.is_global
       => /\ lastOp'.op \in {"set", "unset"}
                => /\ config'._global_config = config._global_config
                   /\ config'.global_config_file = config.global_config_file
          /\ (lastOp'.op = "unset" /\ ~DictHas(config._config, lastOp'.key))
                => /\ config' = config
                   /\ lastOp'.calls = <<>>
                   /\ lastOp'.error = NoError
          /\ lastOp'.op = "get"
                => LET G == Mapping(config._global_config)
                       L == Mapping(config._config)
                       k == lastOp'.key
                   IN  lastOp'.result = IF k \in DOMAIN L THEN L[k]
                                        ELSE IF k \in DOMAIN G THEN G[k]
                                        ELSE None]_vars

\* y was set locally and globally; after the local unset, get("y") returns the
\* global value
C30_Witness ==
    /\ ~config.is_global
    /\ lastOp.op = "get"
    /\ lastOp.key = "y"
    /\ config._global_config = GLOBAL_XY
    /\ config._config = << <<"z", "4">> >>
    /\ lastOp.result = "2"

(***************************************************************************)
(* The key-value store of a backend: get_config, set_config, unset_config   *)
(* and list_config.  GitHub keeps a dict in the instance, Beads keeps it in *)
(* the bd project, NotionBackend defines none of the four methods and      *)
(* inherits the bodies of Backend, which are `pass`.                        *)
(***************************************************************************)
\* a dict as a Python value
PyMapping(d) == [type |-> "dict", items |-> d]

\* GitHubBackend.get_config
GitHub_get_config(gh, key) ==
    TreeOutcome(gh, <<>>, NoError,
                IF DictHas(gh._config, key) THEN DictGet(gh._config, key) ELSE None)

\* GitHubBackend.set_config
GitHub_set_config(gh, key, value) ==
    TreeOutcome([gh EXCEPT !._config = DictSet(@, key, value)], <<>>, NoError, None)

\* GitHubBackend.unset_config
GitHub_unset_config(gh, key) ==
    TreeOutcome([gh EXCEPT !._config = DictDel(@, key)], <<>>, NoError, None)

\* GitHubBackend.list_config
GitHub_list_config(gh) == TreeOutcome(gh, <<>>, NoError, PyMapping(gh._config))

\* bd config <args> --json
BdConfig(args) == [name |-> "config", args |-> args]

\* BeadsBackend.get_config: the "value" of the dict bd prints; None when bd
\* exits non-zero or prints no dict
Beads_get_config(bd, key) ==
    TreeOutcome(bd, <<BdConfig(<<"get", key>>)>>, NoError,
                IF DictHas(bd.config, key) THEN DictGet(bd.config, key) ELSE None)

\* BeadsBackend.set_config
Beads_set_config(bd, key, value) ==
    TreeOutcome([bd EXCEPT !.config = DictSet(@, key, value)],
                <<BdConfig(<<"set", key, value>>)>>, NoError, None)

\* BeadsBackend.unset_config
Beads_unset_config(bd, key) ==
    TreeOutcome([bd EXCEPT !.config = DictDel(@, key)],
                <<BdConfig(<<"unset", key>>)>>, NoError, None)

\* BeadsBackend.list_config
Beads_list_config(bd) ==
    TreeOutcome(bd, <<BdConfig(<<"list">>)>>, NoError, PyMapping(bd.config))

\* Backend.get_config, the body NotionBackend inherits
Notion_get_config(nt, key) == TreeOutcome(nt, <<>>, NoError, None)

\* Backend.set_config, the body NotionBackend inherits
Notion_set_config(nt, key, value) == TreeOutcome(nt, <<>>, NoError, None)

\* Backend.unset_config, the body NotionBackend inherits
Notion_unset_config(nt, key) == TreeOutcome(nt, <<>>, NoError, None)

\* Backend.list_config, the body NotionBackend inherits
Notion_list_config(nt) == TreeOutcome(nt, <<>>, NoError, PyNone)

\* the four methods of the backend in use, on the service state svc
GetConfigOn(svc, key) ==
    CASE backend = "github" -> GitHub_get_config(svc, key)
      [] backend = "notion" -> Notion_get_config(svc, key)
      [] backend = "beads" -> Beads_get_config(svc, key)

SetConfigOn(svc, key, value) ==
    CASE backend = "github" -> GitHub_set_config(svc, key, value)
      [] backend = "notion" -> Notion_set_config(svc, key, value)
      [] backend = "beads" -> Beads_set_config(svc, key, value)

UnsetConfigOn(svc, key) ==
    CASE backend = "github" -> GitHub_unset_config(svc, key)
      [] backend = "notion" -> Notion_unset_config(svc, key)
      [] backend = "beads" -> Beads_unset_config(svc, key)

ListConfigOn(svc) ==
    CASE backend = "github" -> GitHub_list_config(svc)
      [] backend = "notion" -> Notion_list_config(svc)
      [] backend = "beads" -> Beads_list_config(svc)

BackendKeys == {"k1", "k2"}

BackendValues == {"v1", "v2"}

\* the service of the backend in use becomes svc, the others stay
ServiceBecomes(svc) ==
    /\ github' = IF backend = "github" THEN svc ELSE github
    /\ notion' = IF backend = "notion" THEN svc ELSE notion
    /\ beads' = IF backend = "beads" THEN svc ELSE beads

InitBackendConfig ==
    /\ backend \in Backends
    /\ github = PlainGitHub(Ids)
    /\ notion = PlainNotion(Ids)
    /\ beads = PlainBeads(Ids)
    /\ lastOp = NoOp
    /\ pc = IdleProcs
    /\ local = NoLocals
    /\ config = NoConfig

GetConfig ==
    /\ lastOp.op = "none"
    /\ \E key \in BackendKeys :
          lastOp' = ConfigOp("get_config", key, "", GetConfigOn(Service, key))
    /\ UNCHANGED <<backend, github, notion, beads, pc, local, config>>

SetConfig ==
    /\ lastOp.op = "none"
    /\ \E key \in BackendKeys, value \in BackendValues :
          LET r == SetConfigOn(Service, key, value)
          IN  /\ ServiceBecomes(r.svc)
              /\ lastOp' = ConfigOp("set_config", key, value, r)
    /\ UNCHANGED <<backend, pc, local, config>>

UnsetConfig ==
    /\ lastOp.op = "none"
    /\ \E key \in BackendKeys :
          LET r == UnsetConfigOn(Service, key)
          IN  /\ ServiceBecomes(r.svc)
              /\ lastOp' = ConfigOp("unset_config", key, "", r)
    /\ UNCHANGED <<backend, pc, local, config>>

ListConfig ==
    /\ lastOp.op = "none"
    /\ lastOp' = ConfigOp("list_config", "", "", ListConfigOn(Service))
    /\ UNCHANGED <<backend, github, notion, beads, pc, local, config>>

NextBackendConfig ==
    \/ GetConfig
    \/ SetConfig
    \/ UnsetConfig
    \/ ListConfig
    \/ Return

SpecBackendConfig == InitBackendConfig /\ [][NextBackendConfig]_vars

\* C23: on every backend set_config(k, v) makes get_config(k) return v,
\* unset_config(k) raises nothing and makes get_config(k) return None, either
\* leaves the other keys as they were, and list_config returns exactly the keys
\* get_config finds, with their values
C23_KeyValueStore ==
    [][/\ lastOp'.op \in {"set_config", "unset_config"}
            => /\ lastOp'.error = NoError
               /\ GetConfigOn(Service', lastOp'.key).result =
                      (IF lastOp'.op = "set_config" THEN lastOp'.value ELSE None)
               /\ \A key \in BackendKeys \ {lastOp'.key} :
                      GetConfigOn(Service', key).result = GetConfigOn(Service, key).result
       /\ lastOp'.op = "list_config"
            => /\ lastOp'.result.type = "dict"
               /\ Mapping(lastOp'.result.items) =
                      [key \in {k \in BackendKeys : GetConfigOn(Service, k).result # None} |->
                          GetConfigOn(Service, key).result]]_vars

DeletedPrefix(gh, entity_ids) ==
    LET missing == {i \in 1..Len(entity_ids) : entity_ids[i] \notin DOMAIN gh.issues}
    IN  IF missing = {} THEN entity_ids
        ELSE SubSeq(entity_ids, 1,
                    (CHOOSE i \in missing : \A j \in missing : i <= j) - 1)

\* C21: GitHub delete closes: every issue is still there afterwards, a delete
\* that returns leaves read(id).status = "closed" for each id, an issue that was
\* closed already keeps its title, description, labels and status and raises no
\* error, and the ids are handled in list order, up to the first that fails
C21_DeleteClosesIdempotent ==
    [][(backend = "github" /\ lastOp'.op = "delete")
       => LET ids == lastOp'.target_ids
              done == SeqRange(DeletedPrefix(github, ids))
          IN  /\ DOMAIN github'.issues = DOMAIN github.issues
              /\ lastOp'.error = NoError <=> SeqRange(ids) \subseteq DOMAIN github.issues
              /\ \A n \in done :
                    /\ GitHub_read(github', n).error = NoError
                    /\ GitHub_read(github', n).entity.status = CLOSED
                    /\ GitHub_read(github, n).entity.status = CLOSED
                          => github'.issues[n] = github.issues[n]
                    /\ \A f \in {"title", "description", "labels", "assignee"} :
                          GitHub_read(github', n).entity[f] = GitHub_read(github, n).entity[f]
              /\ \A n \in DOMAIN github.issues \ done :
                    github'.issues[n] = github.issues[n]]_vars

\* delete(["1", "1"]) returned on an issue with a label: the second pass found
\* the issue closed
C21_Witness ==
    /\ backend = "github"
    /\ lastOp.op = "delete"
    /\ lastOp.target_ids = <<1, 1>>
    /\ lastOp.error = NoError
    /\ github.issues[1].labels # <<>>
    /\ github.issues[1].state = GH_CLOSED

\* C24: a Notion add_link that returns leaves, in the relation of the link type,
\* the union of the targets stored before and the targets given, each once;
\* the same call again changes nothing; list_links(A, t) lists each target once
C24_NotionAddIdempotent ==
    [][(backend = "notion" /\ lastOp'.op = "add_link" /\ lastOp'.error = NoError)
       => LET A == lastOp'.source_id
              t == NormalizeLinkType(lastOp'.link_type)
              before == notion.pages[A][NotionPropertyMap[t]]
              after == notion'.pages[A][NotionPropertyMap[t]]
              links == Notion_list_links(notion', A, lastOp'.link_type).links
          IN  /\ SeqRange(after) = SeqRange(before) \cup SeqRange(lastOp'.target_ids)
              /\ Len(after) = Cardinality(SeqRange(after))
              /\ Notion_add_link(notion', A, lastOp'.target_ids,
                                 lastOp'.link_type).svc = notion'
              /\ \A B \in SeqRange(lastOp'.target_ids) :
                    Cardinality(LinksTo(links, B)) = 1]_vars

\* add_link(1, [2], "blocking") returned and page 1 blocks 1 and 2: the link to 1
\* was there before and is kept
C24_Witness ==
    /\ backend = "notion"
    /\ lastOp.op = "add_link"
    /\ lastOp.error = NoError
    /\ lastOp.source_id = 1
    /\ lastOp.target_ids = <<2>>
    /\ lastOp.link_type = BLOCKING
    /\ notion.pages[1]["Blocking"] = <<1, 2>>

\* C25: every dependency command of a Beads add_link or remove_link carries the
\* type "related" when the link type is "relates_to" and the link type itself
\* otherwise; remove_link names the type add_link names for the same link type
C25_BeadsTypeMapping ==
    (backend = "beads" /\ lastOp.op \in {"add_link", "remove_link"})
        => LET t == lastOp.link_type
               native == IF t = RELATES_TO THEN RELATED ELSE t
               added == Beads_add_link(beads, lastOp.source_id, lastOp.target_ids, t)
               removed == Beads_remove_link(beads, lastOp.source_id,
                                            lastOp.target_ids, t, FALSE)
           IN  /\ Len(lastOp.calls) >= 1
               /\ \A i \in 1..Len(lastOp.calls) :
                     /\ lastOp.calls[i].name =
                            (IF lastOp.op = "add_link" THEN "dep add" ELSE "dep remove")
                     /\ lastOp.calls[i].type = native
               /\ added.calls[1].type = removed.calls[1].type
               /\ added.calls[1].type = native

\* a Beads add_link with "relates_to" returned: bd was given the type "related"
C25_Witness ==
    /\ backend = "beads"
    /\ lastOp.op = "add_link"
    /\ lastOp.link_type = RELATES_TO
    /\ lastOp.error = NoError
    /\ lastOp.calls[1].type = RELATED

\* C27: on Beads, after add_link(A, [B], t) returned, list_links(A, t) with the
\* same t holds a link from A to B
C27_BeadsAddThenList ==
    (backend = "beads" /\ AddedOne)
        => LinksTo(Beads_list_links(beads, lastOp.source_id, lastOp.link_type).links,
                   ReportedId(lastOp.target_ids[1])) # {}

\* the categories of get_link_tree(entity_id) that list target_id
TreeCategoriesOf(tree, target_id) ==
    {key \in TreeKeys : target_id \in SeqRange(TreeIdsUnder(tree, key))}

\* the link types of the links to target_id among links
LinkTypesTo(links, target_id) == {links[i].link_type : i \in LinksTo(links, target_id)}

\* C26: after add_link(A, [B], "parent") returned on GitHub or Notion, and the
\* same call made on the other of the two, get_link_tree(A) lists B under a
\* category common to both backends and list_links(A, None) returns a link to
\* B of a link type common to both
C26_UniformDirection ==
    (backend \in {"github", "notion"} /\ AddedOne /\ lastOp.link_type = PARENT)
        => LET A == lastOp.source_id
               B == lastOp.target_ids[1]
               on_github == IF backend = "github" THEN github
                            ELSE GitHub_add_link(github, A, <<B>>, PARENT).svc
               on_notion == IF backend = "notion" THEN notion
                            ELSE Notion_add_link(notion, A, <<B>>, PARENT).svc
               github_tree == GitHub_get_link_tree(on_github, A).result
               notion_tree == Notion_get_link_tree(on_notion, A, {}).result
               github_links == GitHub_list_links(on_github, A, NoLinkType).links
               notion_links == Notion_list_links(on_notion, A, NoLinkType).links
           IN  /\ TreeCategoriesOf(github_tree, B) \cap TreeCategoriesOf(notion_tree, B) # {}
               /\ LinkTypesTo(github_links, B) \cap LinkTypesTo(notion_links, B) # {}

\* the stored pages differ at most in one property of one page
OnlyPropertyChanged(before, after, page_id, property_name) ==
    /\ DOMAIN after.pages = DOMAIN before.pages
    /\ \A q \in DOMAIN before.pages :
          /\ DOMAIN after.pages[q] = DOMAIN before.pages[q]
          /\ \A k \in DOMAIN before.pages[q] :
                (q # page_id \/ k # property_name)
                    => after.pages[q][k] = before.pages[q][k]

\* C28: a Notion add_link or remove_link that returns has issued exactly one
\* write, a pages.update of the source page whose properties hold the relation
\* property of the link type and nothing else; the other properties of the
\* source page and all other pages are as before.  Consequently an add_link on
\* the same source with another link type that read the page before this write
\* and writes after it keeps the targets of both calls.
C28_OneRelationWritten ==
    [][(backend = "notion" /\ lastOp.op = "none"
        /\ lastOp'.op \in {"add_link", "remove_link"} /\ lastOp'.error = NoError)
       => LET source_id == lastOp'.source_id
              property_name == NotionPropertyMap[NormalizeLinkType(lastOp'.link_type)]
              writes == Mutations(lastOp'.calls)
          IN  /\ Len(writes) = 1
              /\ writes[1].name = "pages.update"
              /\ writes[1].page_id = source_id
              /\ DOMAIN writes[1].properties = {property_name}
              /\ OnlyPropertyChanged(notion, notion', source_id, property_name)
              /\ lastOp'.op = "add_link" =>
                    \A other \in DOMAIN NotionPropertyMap, target_ids \in TargetLists :
                        LET other_name == NotionPropertyMap[other]
                            update == PagesUpdate(source_id,
                                NotionRelationUpdate(other_name,
                                    NotionAddRelations(notion.pages[source_id][other_name],
                                                       target_ids)))
                            both == NotionExecuteUpdate(notion', update).svc
                        IN  other_name # property_name =>
                              /\ SeqRange(lastOp'.target_ids) \subseteq
                                     SeqRange(both.pages[source_id][property_name])
                              /\ SeqRange(target_ids) \subseteq
                                     SeqRange(both.pages[source_id][other_name])
      ]_vars

\* add_link(1, [2], "blocking") returned on a page 1 whose Parent relation holds
\* page 2: one relation was written and the Parent relation is still there
C28_Witness ==
    /\ backend = "notion"
    /\ lastOp.op = "add_link"
    /\ lastOp.error = NoError
    /\ lastOp.source_id = 1
    /\ lastOp.link_type = BLOCKING
    /\ Len(Mutations(lastOp.calls)) = 1
    /\ notion.pages[1]["Parent"] = <<2>>
    /\ notion.pages[1]["Blocking"] = <<2>>

\* C29: on every backend, the label mapping L passed to an update that returned
\* is the mapping that the native names L was encoded to decode to
C29_LabelEncodingInjective ==
    (Updated /\ "labels" \in lastOp.args.given)
        => LET L == lastOp.args.labels
           IN  DictItems(ParseLabelNames(<<>>, FormatLabels(L), backend = "notion"))
                   = DictItems(L)

====
